---- MODULE Spec2Model ----
(***************************************************************************)
(* A model of aws-sam-tools: the CloudFormation tag classes of             *)
(* aws_sam_tools/cfn_tags.py (construct, represent, to_json, load_yaml,    *)
(* dump_yaml) and the include resolver of cfn_tools/cfn_processing.py.     *)
(*                                                                         *)
(* A text is a sequence of one-character strings, so that "." in data,     *)
(* data.split(".") and the emptiness test are computed on the characters.  *)
(* The only texts that are one piece are the semantic names of the tags    *)
(* ("Fn::GetAtt", ...), which the program never looks inside.              *)
(***************************************************************************)
EXTENDS Integers, Sequences, FiniteSets, TLC

VARIABLES
    doc,        \* the YAML document handed to load_yaml, as the parser's node graph before tag resolution
    pc,         \* "start", "loaded" (load_yaml returned) or "failed" (load_yaml raised)
    tree,       \* what load_yaml returned
    dumped,     \* what dump_yaml(tree) wrote, as the node graph a parser reads back from it
    reloaded,   \* what load_yaml returns for the dumped text
    json,       \* the last to_json call: the object it was called on and what it returned
    cwd,        \* the process's working directory
    call,       \* the top-level call of cfn_processing: the include node loaded and the file_name given
    stack,      \* the construct_cfntools_include_file invocations of the load, outermost first, each with its progress
    result,     \* what the top-level load returned or raised
    opened,     \* the paths handed to open() so far, in order
    classes,            \* cfn_tags._object_classes: the classes the last inject made
    yaml_constructors,  \* CloudFormationLoader.yaml_constructors: the class whose construct is bound to each tag
    yaml_representers,  \* CloudFormationDumper.yaml_representers: the classes that have a representer
    injects,            \* the number of inject calls so far, the one at import included
    loaded,             \* the objects load_yaml returned so far, each with its class
    kwargs              \* the keyword arguments of the dump_yaml call

tagVars == <<doc, pc, tree, dumped, reloaded, json>>
incVars == <<cwd, call, stack, result, opened>>
regVars == <<classes, yaml_constructors, yaml_representers, injects, loaded, kwargs>>
vars == <<doc, pc, tree, dumped, reloaded, json, cwd, call, stack, result, opened,
          classes, yaml_constructors, yaml_representers, injects, loaded, kwargs>>

(***************************************************************************)
(* Bounds of the model.                                                    *)
(***************************************************************************)
\* the number of nodes of the document handed to load_yaml
MaxNodes == 3

(***************************************************************************)
(* yaml nodes and Python values.                                           *)
(***************************************************************************)
StrTag == "tag:yaml.org,2002:str"
IntTag == "tag:yaml.org,2002:int"
BoolTag == "tag:yaml.org,2002:bool"
NullTag == "tag:yaml.org,2002:null"
SeqTag == "tag:yaml.org,2002:seq"
MapTag == "tag:yaml.org,2002:map"
ValueTag == "tag:yaml.org,2002:value"

\* yaml.ScalarNode / SequenceNode / MappingNode: a mapping node's value is the
\* list of (key node, value node), kept here as the two lists keys and items.
\* style is the style asked of the emitter: "None" (its choice), "" (plain) or "'".
ScalarNode(tag, value, style) ==
    [kind |-> "scalar", tag |-> tag, value |-> value, style |-> style, keys |-> <<>>, items |-> <<>>]

SequenceNode(tag, items) ==
    [kind |-> "sequence", tag |-> tag, value |-> <<>>, style |-> "None", keys |-> <<>>, items |-> items]

MappingNode(tag, keys, items) ==
    [kind |-> "mapping", tag |-> tag, value |-> <<>>, style |-> "None", keys |-> keys, items |-> items]

NoNode == [kind |-> "none", tag |-> "", value |-> <<>>, style |-> "None", keys |-> <<>>, items |-> <<>>]

\* a node whose object has been constructed: the loader keeps the object (in
\* constructed_objects) and hands it out when the node is reached again
ConstructedNode(value) ==
    [kind |-> "constructed", tag |-> "", value |-> <<>>, style |-> "None", keys |-> <<>>, items |-> <<value>>]

\* Python values: str and int carry their text in s, a list its elements in
\* items, a dict its keys and values in keys and items (insertion order), a
\* CloudFormationObject its class's tag in tag and its data as items[1].
PyStr(s) == [kind |-> "str", tag |-> "", s |-> s, keys |-> <<>>, items |-> <<>>]

PyInt(s) == [kind |-> "int", tag |-> "", s |-> s, keys |-> <<>>, items |-> <<>>]

\* True or False, its YAML text ("true", "false") in s
PyBool(s) == [kind |-> "bool", tag |-> "", s |-> s, keys |-> <<>>, items |-> <<>>]

PyNone == [kind |-> "null", tag |-> "", s |-> <<>>, keys |-> <<>>, items |-> <<>>]

PyList(items) == [kind |-> "list", tag |-> "", s |-> <<>>, keys |-> <<>>, items |-> items]

PyDict(keys, items) == [kind |-> "dict", tag |-> "", s |-> <<>>, keys |-> keys, items |-> items]

Obj(tag, data) == [kind |-> "obj", tag |-> tag, s |-> <<>>, keys |-> <<>>, items |-> <<data>>]

\* a raised exception, named by its class
Raised(cls) == [kind |-> "error", tag |-> cls, s |-> <<>>, keys |-> <<>>, items |-> <<>>]

\* no value yet
Unset == [kind |-> "unset", tag |-> "", s |-> <<>>, keys |-> <<>>, items |-> <<>>]

IsErr(v) == v.kind = "error"

AnyErr(vs) == \E i \in 1..Len(vs) : IsErr(vs[i])

FirstErr(vs) == vs[CHOOSE i \in 1..Len(vs) : IsErr(vs[i]) /\ \A j \in 1..(i - 1) : ~IsErr(vs[j])]

Data(obj) == obj.items[1]

(***************************************************************************)
(* Texts.                                                                  *)
(***************************************************************************)
Digits == {"0", "1", "2", "3", "4", "5", "6", "7", "8", "9"}

NullText == <<"n", "u", "l", "l">>

TrueText == <<"t", "r", "u", "e">>

FalseText == <<"f", "a", "l", "s", "e">>

\* "." in data, for a str
HasDot(s) == \E i \in 1..Len(s) : s[i] = "."

\* the index of the first "." of s, or 0
FirstDot(s) == IF HasDot(s) THEN CHOOSE i \in 1..Len(s) : s[i] = "." /\ \A j \in 1..(i - 1) : s[j] # "." ELSE 0

RECURSIVE Split(_)
\* str.split("."): the pieces between the dots, empty pieces included
Split(s) ==
    IF ~HasDot(s) THEN <<s>>
    ELSE <<SubSeq(s, 1, FirstDot(s) - 1)>> \o Split(SubSeq(s, FirstDot(s) + 1, Len(s)))

Letters ==
    {"a", "b", "c", "d", "e", "f", "g", "h", "i", "j", "k", "l", "m",
     "n", "o", "p", "q", "r", "s", "t", "u", "v", "w", "x", "y", "z",
     "A", "B", "C", "D", "E", "F", "G", "H", "I", "J", "K", "L", "M",
     "N", "O", "P", "Q", "R", "S", "T", "U", "V", "W", "X", "Y", "Z"}

RECURSIVE Ident(_, _)
\* whether s, read from state q, is accepted by
\* [a-zA-Z][a-zA-Z0-9_\-]*(::[a-zA-Z][a-zA-Z0-9]*)*
\* (q: "start", "head" in the first name, "colon" after one ':', "part" before
\* a later name's first letter, "tail" in a later name)
Ident(s, q) ==
    IF s = <<>> THEN q \in {"head", "tail"}
    ELSE LET c == Head(s)
         IN IF q \in {"start", "part"}
            THEN c \in Letters /\ Ident(Tail(s), IF q = "start" THEN "head" ELSE "tail")
            ELSE IF q = "colon" THEN c = ":" /\ Ident(Tail(s), "part")
            ELSE IF c = ":" THEN Ident(Tail(s), "colon")
            ELSE IF q = "head" THEN c \in Letters \cup Digits \cup {"_", "-"} /\ Ident(Tail(s), "head")
            ELSE c \in Letters \cup Digits /\ Ident(Tail(s), "tail")

\* re.match(r"^[a-zA-Z][a-zA-Z0-9_\-]*(::[a-zA-Z][a-zA-Z0-9]*)*$", data):
\* "$" also matches before one final newline
IdentifierLike(s) ==
    \/ Ident(s, "start")
    \/ Len(s) > 0 /\ s[Len(s)] = "\n" /\ Ident(SubSeq(s, 1, Len(s) - 1), "start")

(***************************************************************************)
(* The tag table and the classes inject builds from it.                    *)
(***************************************************************************)
SCALAR == "scalar"

SEQUENCE == "sequence"

SEQUENCE_OR_SCALAR == "sequence_scalar"

MAPPING == "mapping"

MAPPING_OR_SCALAR == "mapping_scalar"

ref == [name |-> "Ref", tag |-> "Ref", type |-> SCALAR]

condition == [name |-> "Condition", tag |-> "Condition", type |-> SCALAR]

functions == <<
    [name |-> "Fn::And", tag |-> "And", type |-> SEQUENCE],
    [name |-> "Fn::Base64", tag |-> "Base64", type |-> SCALAR],
    [name |-> "Fn::Cidr", tag |-> "Cidr", type |-> SEQUENCE],
    [name |-> "Fn::Equals", tag |-> "Equals", type |-> SEQUENCE],
    [name |-> "Fn::FindInMap", tag |-> "FindInMap", type |-> SEQUENCE],
    [name |-> "Fn::GetAtt", tag |-> "GetAtt", type |-> SEQUENCE_OR_SCALAR],
    [name |-> "Fn::GetAZs", tag |-> "GetAZs", type |-> SCALAR],
    [name |-> "Fn::If", tag |-> "If", type |-> SEQUENCE],
    [name |-> "Fn::ImportValue", tag |-> "ImportValue", type |-> SCALAR],
    [name |-> "Fn::Join", tag |-> "Join", type |-> SEQUENCE],
    [name |-> "Fn::Not", tag |-> "Not", type |-> SEQUENCE],
    [name |-> "Fn::Or", tag |-> "Or", type |-> SEQUENCE],
    [name |-> "Fn::Select", tag |-> "Select", type |-> SEQUENCE],
    [name |-> "Fn::Split", tag |-> "Split", type |-> SEQUENCE],
    [name |-> "Fn::Sub", tag |-> "Sub", type |-> SEQUENCE_OR_SCALAR],
    [name |-> "Fn::Transform", tag |-> "Transform", type |-> MAPPING] >>

\* classes whose tag is the row's tag as the table writes it
object_classes_unprefixed ==
    LET rows == functions \o <<ref, condition>>
    IN [i \in 1..Len(rows) |-> [name |-> rows[i].name, tag |-> rows[i].tag, type |-> rows[i].type]]

\* inject: one class per row of chain(functions, [ref, condition]), its tag the
\* row's tag with "!" put in front (no row's tag starts with "!")
object_classes ==
    LET rows == functions \o <<ref, condition>>
    IN [i \in 1..Len(rows) |-> [name |-> rows[i].name, tag |-> "!" \o rows[i].tag, type |-> rows[i].type]]

\* the tags CloudFormationLoader has a constructor for (loader.add_constructor)
RegisteredTags == {object_classes[i].tag : i \in 1..Len(object_classes)}

\* the class bound to a tag: add_constructor keeps the last one added
ClassOf(tag) ==
    object_classes[CHOOSE i \in 1..Len(object_classes) :
        object_classes[i].tag = tag /\ \A j \in (i + 1)..Len(object_classes) : object_classes[j].tag # tag]

CloudFormationLoader == "CloudFormationLoader"

CloudFormationDumper == "CloudFormationDumper"

\* the registry: _object_classes and the two tables of the yaml classes. A
\* class is known by its row and by the inject call that made it (id).
Registry(cs, ctors, reprs) == [classes |-> cs, yaml_constructors |-> ctors, yaml_representers |-> reprs]

\* before inject is called: _object_classes = None, no constructor and no
\* representer of this module
NoRegistry == Registry(<<>>, <<>>, {})

\* inject(*args), the n-th call: a new class is made of every row; each
\* loader among args gets its construct as the constructor of its tag, in
\* place of the one it had, and each dumper a representer for the class
inject(reg, args, n) ==
    LET made == [i \in 1..Len(object_classes) |->
                    [name |-> object_classes[i].name, tag |-> object_classes[i].tag,
                     type |-> object_classes[i].type, id |-> n]]
        bound == {made[i].tag : i \in 1..Len(made)}
        last(tag) == made[CHOOSE i \in 1..Len(made) :
                              made[i].tag = tag /\ \A j \in (i + 1)..Len(made) : made[j].tag # tag]
    IN Registry(made,
                IF CloudFormationLoader \in args
                THEN [tag \in bound \cup DOMAIN reg.yaml_constructors |->
                         IF tag \in bound THEN last(tag) ELSE reg.yaml_constructors[tag]]
                ELSE reg.yaml_constructors,
                IF CloudFormationDumper \in args
                THEN reg.yaml_representers \cup {made[i] : i \in 1..Len(made)}
                ELSE reg.yaml_representers)

\* the module after import: inject(CloudFormationLoader, CloudFormationDumper)
\* has run once; no dump_yaml call is under way
Imported ==
    LET reg == inject(NoRegistry, {CloudFormationLoader, CloudFormationDumper}, 1)
    IN /\ classes = reg.classes
       /\ yaml_constructors = reg.yaml_constructors
       /\ yaml_representers = reg.yaml_representers
       /\ injects = 1
       /\ loaded = <<>>
       /\ kwargs = <<>>

(***************************************************************************)
(* Loading: yaml.load(stream, Loader=CloudFormationLoader).                *)
(***************************************************************************)
\* yaml's implicit resolver on a plain scalar (the patterns this model's
\* alphabet can spell: null, bool, int, the value key "=", else str)
ResolveScalar(value) ==
    IF value = <<>> \/ value = <<"~">> \/ value = NullText THEN NullTag
    ELSE IF value \in {TrueText, FalseText} THEN BoolTag
    ELSE IF \A i \in 1..Len(value) : value[i] \in Digits THEN IntTag
    ELSE IF value = <<"=">> THEN ValueTag
    ELSE StrTag

RECURSIVE Compose(_)
\* the composer: a node written without a tag (tag "") gets the tag the
\* resolver gives it (a quoted scalar: str); a node written with a tag keeps it
Compose(n) ==
    IF n.kind = "constructed" THEN n
    ELSE IF n.kind = "scalar"
    THEN ScalarNode(IF n.tag # "" THEN n.tag ELSE IF n.style = "None" THEN ResolveScalar(n.value) ELSE StrTag,
                    n.value, n.style)
    ELSE IF n.kind = "sequence"
    THEN SequenceNode(IF n.tag = "" THEN SeqTag ELSE n.tag, [i \in 1..Len(n.items) |-> Compose(n.items[i])])
    ELSE MappingNode(IF n.tag = "" THEN MapTag ELSE n.tag,
                     [i \in 1..Len(n.keys) |-> Compose(n.keys[i])],
                     [i \in 1..Len(n.items) |-> Compose(n.items[i])])

\* a dict after d[key] = value
DictSet(d, key, value) ==
    IF \E i \in 1..Len(d.keys) : d.keys[i] = key
    THEN PyDict(d.keys, [i \in 1..Len(d.items) |-> IF d.keys[i] = key THEN value ELSE d.items[i]])
    ELSE PyDict(Append(d.keys, key), Append(d.items, value))

RECURSIVE DictOf(_, _)
\* the dict built by inserting the pairs in order
DictOf(keys, items) ==
    IF Len(keys) = 0 THEN PyDict(<<>>, <<>>)
    ELSE DictSet(DictOf(SubSeq(keys, 1, Len(keys) - 1), SubSeq(items, 1, Len(items) - 1)),
                 keys[Len(keys)], items[Len(items)])

\* SafeConstructor.flatten_mapping: a "=" key becomes a plain str key
flatten_mapping(node) ==
    MappingNode(node.tag,
                [i \in 1..Len(node.keys) |->
                    IF node.keys[i].tag = ValueTag
                    THEN ScalarNode(StrTag, node.keys[i].value, node.keys[i].style)
                    ELSE node.keys[i]],
                node.items)

RECURSIVE construct_object(_), construct(_, _), construct_scalar(_), construct_sequence(_), construct_mapping(_)
\* SafeConstructor.construct_scalar: a mapping node with a "=" key yields the
\* scalar under that key; any other node that is no scalar node raises
construct_scalar(node) ==
    IF node.kind = "mapping" /\ \E i \in 1..Len(node.keys) : node.keys[i].tag = ValueTag
    THEN construct_scalar(node.items[CHOOSE i \in 1..Len(node.keys) :
            node.keys[i].tag = ValueTag /\ \A j \in 1..(i - 1) : node.keys[j].tag # ValueTag])
    ELSE IF node.kind # "scalar" THEN Raised("ConstructorError")
    ELSE PyStr(node.value)

\* BaseConstructor.construct_sequence: raises on a node that is no sequence node
construct_sequence(node) ==
    IF node.kind # "sequence" THEN Raised("ConstructorError")
    ELSE LET vs == [i \in 1..Len(node.items) |-> construct_object(node.items[i])]
         IN IF AnyErr(vs) THEN FirstErr(vs) ELSE PyList(vs)

\* SafeConstructor.construct_mapping: raises on a node that is no mapping node
\* and on a key that cannot be hashed
construct_mapping(node) ==
    IF node.kind # "mapping" THEN Raised("ConstructorError")
    ELSE LET flat == flatten_mapping(node)
             ks == [i \in 1..Len(flat.keys) |-> construct_object(flat.keys[i])]
             vs == [i \in 1..Len(flat.items) |-> construct_object(flat.items[i])]
         IN IF AnyErr(ks) THEN FirstErr(ks)
            ELSE IF \E i \in 1..Len(ks) : ks[i].kind \in {"list", "dict", "obj"} THEN Raised("ConstructorError")
            ELSE IF AnyErr(vs) THEN FirstErr(vs)
            ELSE DictOf(ks, vs)

\* cls(data), or the exception that building data raised
New(cls, data) == IF IsErr(data) THEN data ELSE Obj(cls.tag, data)

\* CloudFormationObject.construct
construct(cls, node) ==
    IF cls.type = SCALAR THEN New(cls, construct_scalar(node))
    ELSE IF cls.type = SEQUENCE THEN New(cls, construct_sequence(node))
    ELSE IF cls.type = SEQUENCE_OR_SCALAR
    THEN IF IsErr(construct_sequence(node)) /\ construct_sequence(node).tag = "ConstructorError"
         THEN New(cls, construct_scalar(node))
         ELSE New(cls, construct_sequence(node))
    ELSE IF cls.type = MAPPING THEN New(cls, construct_mapping(node))
    ELSE IF cls.type = MAPPING_OR_SCALAR
    THEN IF IsErr(construct_mapping(node)) /\ construct_mapping(node).tag = "ConstructorError"
         THEN New(cls, construct_scalar(node))
         ELSE New(cls, construct_mapping(node))
    ELSE Raised("RuntimeError")

\* BaseConstructor.construct_object: the constructor registered for the node's
\* tag; a tag with none raises (construct_undefined)
construct_object(node) ==
    IF node.tag \in RegisteredTags THEN construct(ClassOf(node.tag), node)
    ELSE IF node.tag = StrTag THEN construct_scalar(node)
    ELSE IF node.tag = IntTag THEN PyInt(node.value)
    ELSE IF node.tag = BoolTag THEN PyBool(node.value)
    ELSE IF node.tag = NullTag THEN PyNone
    ELSE IF node.tag = SeqTag THEN construct_sequence(node)
    ELSE IF node.tag = MapTag THEN construct_mapping(node)
    ELSE Raised("ConstructorError")

\* load_yaml
load_yaml(stream) == construct_object(Compose(stream))

(***************************************************************************)
(* Dumping: yaml.dump(data, Dumper=CloudFormationDumper, ...).             *)
(***************************************************************************)
RECURSIVE represent_data(_), represent(_)
\* represent with the JSON canonicalization applied to a scalar Ref: it is
\* emitted as !GetAtt with its data split on "."
represent_canonicalized(obj) ==
    LET data == Data(obj)
    IN IF data.kind = "list"
       THEN SequenceNode(obj.tag, [i \in 1..Len(data.items) |-> represent_data(data.items[i])])
       ELSE IF data.kind = "dict"
       THEN MappingNode(obj.tag,
                        [i \in 1..Len(data.keys) |-> represent_data(data.keys[i])],
                        [i \in 1..Len(data.items) |-> represent_data(data.items[i])])
       ELSE IF obj.tag = "!Ref" /\ HasDot(data.s)
       THEN SequenceNode("!GetAtt", [i \in 1..Len(Split(data.s)) |-> ScalarNode(StrTag, Split(data.s)[i], "None")])
       ELSE ScalarNode(obj.tag, data.s, "None")

\* CloudFormationObject.represent
represent(obj) ==
    LET data == Data(obj)
    IN IF data.kind = "list"
       THEN SequenceNode(obj.tag, [i \in 1..Len(data.items) |-> represent_data(data.items[i])])
       ELSE IF data.kind = "dict"
       THEN MappingNode(obj.tag,
                        [i \in 1..Len(data.keys) |-> represent_data(data.keys[i])],
                        [i \in 1..Len(data.items) |-> represent_data(data.items[i])])
       ELSE IF data.kind = "str" /\ IdentifierLike(data.s)
       THEN ScalarNode(obj.tag, data.s, "")
       ELSE ScalarNode(obj.tag, data.s, "None")

\* SafeRepresenter.represent_data: the representer registered for the value's type
represent_data(v) ==
    IF v.kind = "obj" THEN represent(v)
    ELSE IF v.kind = "str" THEN ScalarNode(StrTag, v.s, "None")
    ELSE IF v.kind = "int" THEN ScalarNode(IntTag, v.s, "None")
    ELSE IF v.kind = "bool" THEN ScalarNode(BoolTag, v.s, "None")
    ELSE IF v.kind = "null" THEN ScalarNode(NullTag, NullText, "None")
    ELSE IF v.kind = "list"
    THEN SequenceNode(SeqTag, [i \in 1..Len(v.items) |-> represent_data(v.items[i])])
    ELSE MappingNode(MapTag,
                     [i \in 1..Len(v.keys) |-> represent_data(v.keys[i])],
                     [i \in 1..Len(v.items) |-> represent_data(v.items[i])])

RECURSIVE emit_parse(_)
\* The text the serializer and emitter write for a node, as the node graph a
\* parser reads from it (a tag that is not written reads as ""). A scalar is
\* written plain when no quoting is asked and the resolver gives its tag back
\* from its text, quoted otherwise; its tag is written unless the reader finds
\* it again (plain: by the resolver; quoted: str). A collection's tag is
\* written unless it is the default seq or map.
emit_parse(n) ==
    IF n.kind = "scalar"
    THEN LET plain == n.style \in {"None", ""} /\ n.tag = ResolveScalar(n.value)
             omitted == IF plain THEN TRUE ELSE n.tag = StrTag
         IN ScalarNode(IF omitted THEN "" ELSE n.tag, n.value, IF plain THEN "None" ELSE "'")
    ELSE IF n.kind = "sequence"
    THEN SequenceNode(IF n.tag = SeqTag THEN "" ELSE n.tag,
                      [i \in 1..Len(n.items) |-> emit_parse(n.items[i])])
    ELSE MappingNode(IF n.tag = MapTag THEN "" ELSE n.tag,
                     [i \in 1..Len(n.keys) |-> emit_parse(n.keys[i])],
                     [i \in 1..Len(n.items) |-> emit_parse(n.items[i])])

\* dump_yaml with no options
dump_yaml(data) == emit_parse(represent_data(data))

(***************************************************************************)
(* JSON conversion.                                                        *)
(***************************************************************************)
\* "." in data
ContainsDot(data) ==
    IF data.kind = "str" THEN HasDot(data.s)
    ELSE IF data.kind = "list" THEN \E i \in 1..Len(data.items) : data.items[i] = PyStr(<<".">>)
    ELSE IF data.kind = "dict" THEN \E i \in 1..Len(data.keys) : data.keys[i] = PyStr(<<".">>)
    ELSE FALSE

\* data.split(".")
SplitDots(data) ==
    IF data.kind = "str"
    THEN PyList([i \in 1..Len(Split(data.s)) |-> PyStr(Split(data.s)[i])])
    ELSE Raised("AttributeError")

\* {name: data}
OneKey(name, data) == IF IsErr(data) THEN data ELSE PyDict(<<PyStr(<<name>>)>>, <<data>>)

RECURSIVE to_json(_)
\* to_json with the Ref branch splitting the data and keeping the name "Ref"
to_json_keeps_ref(self) ==
    LET d == Data(self)
        convert(obj) == IF obj.kind = "obj" THEN to_json(obj) ELSE obj
        data == IF d.kind = "dict" THEN PyDict(d.keys, [i \in 1..Len(d.items) |-> convert(d.items[i])])
                ELSE IF d.kind = "list" THEN PyList([i \in 1..Len(d.items) |-> convert(d.items[i])])
                ELSE d
        name == ClassOf(self.tag).name
    IN IF AnyErr(data.items) THEN FirstErr(data.items)
       ELSE IF name = "Fn::GetAtt" /\ data.kind = "str" THEN OneKey(name, SplitDots(data))
       ELSE IF name = "Ref" /\ ContainsDot(data) THEN OneKey(name, SplitDots(data))
       ELSE OneKey(name, data)

\* CloudFormationObject.to_json: what it returns
to_json(self) ==
    LET d == Data(self)
        convert(obj) == IF obj.kind = "obj" THEN to_json(obj) ELSE obj
        data == IF d.kind = "dict" THEN PyDict(d.keys, [i \in 1..Len(d.items) |-> convert(d.items[i])])
                ELSE IF d.kind = "list" THEN PyList([i \in 1..Len(d.items) |-> convert(d.items[i])])
                ELSE d
        name == ClassOf(self.tag).name
    IN IF AnyErr(data.items) THEN FirstErr(data.items)
       ELSE IF name = "Fn::GetAtt" /\ data.kind = "str" THEN OneKey(name, SplitDots(data))
       ELSE IF name = "Ref" /\ ContainsDot(data) THEN OneKey("Fn::GetAtt", SplitDots(data))
       ELSE OneKey(name, data)

\* to_json storing the canonical form in the object it is called on
to_json_self_rewritten(self) ==
    IF self.tag = "!Ref" /\ ContainsDot(Data(self)) THEN Obj("!GetAtt", SplitDots(Data(self)))
    ELSE IF self.tag = "!GetAtt" /\ Data(self).kind = "str" THEN Obj("!GetAtt", SplitDots(Data(self)))
    ELSE self

\* CloudFormationObject.to_json: the object after the call (nothing of self is assigned)
to_json_self(self) == self

\* json.JSONEncoder.default: no value is taken
encoder_default_unhandled(o) == Raised("TypeError")

\* JSONFromYAMLEncoder.default, called with what json cannot write itself
encoder_default(o) == IF o.kind = "obj" THEN to_json(o) ELSE Raised("TypeError")

RECURSIVE json_encode(_)
\* json.dumps(o, cls=JSONFromYAMLEncoder), as the value the text written reads
\* back as: a dict and a list are written element by element, and what
\* default returns is written in the place of the value it was called with
json_encode(o) ==
    IF o.kind = "dict"
    THEN LET vs == [i \in 1..Len(o.items) |-> json_encode(o.items[i])]
         IN IF AnyErr(vs) THEN FirstErr(vs) ELSE PyDict(o.keys, vs)
    ELSE IF o.kind = "list"
    THEN LET vs == [i \in 1..Len(o.items) |-> json_encode(o.items[i])]
         IN IF AnyErr(vs) THEN FirstErr(vs) ELSE PyList(vs)
    ELSE IF o.kind \in {"str", "int", "bool", "null"} THEN o
    ELSE IF IsErr(encoder_default(o)) THEN encoder_default(o)
    ELSE json_encode(encoder_default(o))

(***************************************************************************)
(* Positions in a tree. An object and its data are one position, as they   *)
(* are one node of the document; the children of a position are the        *)
(* elements of the list or the values of the dict found there.             *)
(***************************************************************************)
Children(v) ==
    IF v.kind = "obj" THEN Data(v).items
    ELSE IF v.kind \in {"list", "dict"} THEN v.items
    ELSE <<>>

RECURSIVE Paths(_)
Paths(v) ==
    {<<>>} \cup UNION {{<<i>> \o p : p \in Paths(Children(v)[i])} : i \in 1..Len(Children(v))}

RECURSIVE At(_, _)
At(v, p) == IF p = <<>> THEN v ELSE At(Children(v)[p[1]], Tail(p))

RECURSIVE ValidPath(_, _)
ValidPath(v, p) == p = <<>> \/ (p[1] \in 1..Len(Children(v)) /\ ValidPath(Children(v)[p[1]], Tail(p)))

\* the value at position p, or Unset when the tree has no such position
SafeAt(v, p) == IF ValidPath(v, p) THEN At(v, p) ELSE Unset

RECURSIVE JoinDots(_)
\* ".".join(parts), for a list of str
JoinDots(parts) ==
    IF Len(parts) = 0 THEN <<>>
    ELSE IF Len(parts) = 1 THEN parts[1].s
    ELSE parts[1].s \o <<".">> \o JoinDots(Tail(parts))

RECURSIVE Put(_, _, _)
\* the tree with the value at position p replaced
Put(v, p, w) ==
    IF p = <<>> THEN w
    ELSE IF v.kind = "obj"
    THEN Obj(v.tag, [Data(v) EXCEPT !.items[p[1]] = Put(Data(v).items[p[1]], Tail(p), w)])
    ELSE [v EXCEPT !.items[p[1]] = Put(v.items[p[1]], Tail(p), w)]

(***************************************************************************)
(* The documents loaded: every node graph of at most MaxNodes value nodes, *)
(* written node by node. The outermost node carries any registered tag or  *)
(* none; the nodes below carry the tags and texts listed here.             *)
(***************************************************************************)
TopTexts == {<<>>, <<"a">>, <<"a", ".", "b">>, <<"1">>}

NestedTexts == {<<"a">>, <<"a", ".", "b">>}

NestedScalarTags == {"", "!Ref", "!GetAtt"}

NestedSequenceTags == {"", "!And"}

NestedMappingTags == {"", "!Transform"}

KeyNodes == {ScalarNode("", <<"a">>, "None"), ScalarNode("", <<"=">>, "None")}

\* the one-node documents
TopNodes ==
    {ScalarNode(t, v, "None") : t \in RegisteredTags \cup {""}, v \in TopTexts}
    \cup {SequenceNode(t, <<>>) : t \in RegisteredTags \cup {""}}
    \cup {MappingNode(t, <<>>, <<>>) : t \in RegisteredTags \cup {""}}

\* the nodes written below the outermost one
NestedNodes ==
    {ScalarNode(t, v, "None") : t \in NestedScalarTags, v \in NestedTexts}
    \cup {SequenceNode(t, <<>>) : t \in NestedSequenceTags}
    \cup {MappingNode(t, <<>>, <<>>) : t \in NestedMappingTags}

RECURSIVE NodeCount(_, _)
\* the number of nodes of n, the first i of its children counted
NodeCount(n, i) == IF i = 0 THEN 1 ELSE NodeCount(n, i - 1) + NodeCount(n.items[i], Len(n.items[i].items))

RECURSIVE NodePaths(_)
NodePaths(n) ==
    {<<>>} \cup UNION {{<<i>> \o p : p \in NodePaths(n.items[i])} : i \in 1..Len(n.items)}

RECURSIVE NodeAt(_, _)
NodeAt(n, p) == IF p = <<>> THEN n ELSE NodeAt(n.items[p[1]], Tail(p))

RECURSIVE WithChild(_, _, _, _)
\* the document with one more child (under key k, in a mapping) at the end of the collection at p
WithChild(n, p, k, c) ==
    IF p = <<>>
    THEN IF n.kind = "mapping" THEN [n EXCEPT !.keys = Append(@, k), !.items = Append(@, c)]
         ELSE [n EXCEPT !.items = Append(@, c)]
    ELSE [n EXCEPT !.items[p[1]] = WithChild(n.items[p[1]], Tail(p), k, c)]

(***************************************************************************)
(* The tag classes as a state machine: a document is written and loaded;   *)
(* the tree is dumped and the dumped text loaded again; to_json is called  *)
(* on objects of the tree, any number of times, before or after the dump.  *)
(***************************************************************************)
NoCall == [self |-> Unset, ret |-> Unset]

IncludeIdle ==
    /\ cwd = <<>>
    /\ call = [node |-> NoNode, file_name |-> <<>>]
    /\ stack = <<>>
    /\ result = Unset
    /\ opened = <<>>

Init ==
    /\ doc \in TopNodes
    /\ pc = "start"
    /\ tree = Unset
    /\ dumped = NoNode
    /\ reloaded = Unset
    /\ json = NoCall
    /\ IncludeIdle
    /\ Imported

\* the author writes one more node into the document
Write ==
    /\ pc = "start"
    /\ NodeCount(doc, Len(doc.items)) < MaxNodes
    /\ \E p \in NodePaths(doc), c \in NestedNodes, k \in KeyNodes :
          /\ NodeAt(doc, p).kind \in {"sequence", "mapping"}
          /\ IF NodeAt(doc, p).kind = "mapping"
             THEN \A i \in 1..Len(NodeAt(doc, p).keys) : NodeAt(doc, p).keys[i] # k
             ELSE k = ScalarNode("", <<"a">>, "None")
          /\ doc' = WithChild(doc, p, k, c)
    /\ UNCHANGED <<pc, tree, dumped, reloaded, json>>
    /\ UNCHANGED incVars
    /\ UNCHANGED regVars

Load ==
    /\ pc = "start"
    /\ tree' = load_yaml(doc)
    /\ pc' = IF IsErr(load_yaml(doc)) THEN "failed" ELSE "loaded"
    /\ UNCHANGED <<doc, dumped, reloaded, json>>
    /\ UNCHANGED incVars
    /\ UNCHANGED regVars

Dump ==
    /\ pc = "loaded"
    /\ dumped = NoNode
    /\ dumped' = dump_yaml(tree)
    /\ UNCHANGED <<doc, pc, tree, reloaded, json>>
    /\ UNCHANGED incVars
    /\ UNCHANGED regVars

Reload ==
    /\ dumped # NoNode
    /\ reloaded = Unset
    /\ reloaded' = load_yaml(dumped)
    /\ UNCHANGED <<doc, pc, tree, dumped, json>>
    /\ UNCHANGED incVars
    /\ UNCHANGED regVars

ToJson ==
    /\ pc = "loaded"
    /\ \E p \in Paths(tree) :
          /\ At(tree, p).kind = "obj"
          /\ json' = [self |-> At(tree, p), ret |-> to_json(At(tree, p))]
          /\ tree' = Put(tree, p, to_json_self(At(tree, p)))
    /\ UNCHANGED <<doc, pc, dumped, reloaded>>
    /\ UNCHANGED incVars
    /\ UNCHANGED regVars

\* json.dumps(tree, cls=JSONFromYAMLEncoder) is called once on the tree
JsonDumps ==
    /\ pc = "loaded"
    /\ result = Unset
    /\ result' = json_encode(tree)
    /\ UNCHANGED <<cwd, call, stack, opened>>
    /\ UNCHANGED tagVars
    /\ UNCHANGED regVars

Next == Write \/ Load \/ Dump \/ Reload \/ ToJson \/ JsonDumps

Spec == Init /\ [][Next]_vars

(***************************************************************************)
(* C1..C5: the tag classes, under Spec.                                    *)
(***************************************************************************)
\* C1: load(dump(T)) with default dump options is deep-equal to T for every
\* tree T that load produced: the dumped text loads without error, every
\* object comes back with its tag and an equal payload, and a Ref is not
\* rewritten to a GetAtt on the way.
C1_RoundTrip == reloaded # Unset => ~IsErr(reloaded) /\ reloaded = tree

\* a tree with an object inside an object's payload, and a dotted Ref, has
\* been dumped and loaded again
C1_Witness ==
    /\ reloaded # Unset
    /\ tree.kind = "obj"
    /\ \E p \in Paths(tree) : p # <<>> /\ At(tree, p) = Obj("!Ref", PyStr(<<"a", ".", "b">>))

\* the kinds of node a tag type accepts
AllowedNodeKinds(type) ==
    IF type = SCALAR THEN {"scalar"}
    ELSE IF type = SEQUENCE THEN {"sequence"}
    ELSE IF type = SEQUENCE_OR_SCALAR THEN {"sequence", "scalar"}
    ELSE IF type = MAPPING THEN {"mapping"}
    ELSE {"mapping", "scalar"}

\* the kind of payload built from a kind of node
PayloadKindOf(nodeKind) ==
    IF nodeKind = "scalar" THEN "str" ELSE IF nodeKind = "sequence" THEN "list" ELSE "dict"

\* C2 (as claimed): construct for !GetAtt and !Sub turns a sequence node into
\* an object with a list payload and a scalar node into an object with a str
\* payload, and fails on a mapping node (no object is built). Stated of the
\* document's outermost node, the node construct is called on first.
C2_SequenceOrScalar ==
    (pc \in {"loaded", "failed"} /\ Compose(doc).tag \in {"!GetAtt", "!Sub"}) =>
        /\ Compose(doc).kind = "mapping" => pc = "failed"
        /\ pc = "loaded" =>
              /\ tree.kind = "obj"
              /\ tree.tag = Compose(doc).tag
              /\ Data(tree).kind = PayloadKindOf(Compose(doc).kind)

\* C3 (as claimed): construct fails on a node of a kind the type of its tag
\* does not allow (a Scalar tag on a sequence or mapping node, a Sequence tag
\* on a scalar or mapping node, a Mapping tag on a scalar or sequence node),
\* and every object of a loaded tree has a payload of a kind the type of its
\* tag allows.
C3_ShapeAtConstruction ==
    pc \in {"loaded", "failed"} =>
        /\ (/\ Compose(doc).tag \in RegisteredTags
            /\ Compose(doc).kind \notin AllowedNodeKinds(ClassOf(Compose(doc).tag).type)) => pc = "failed"
        /\ pc = "loaded" =>
              \A p \in Paths(tree) :
                  At(tree, p).kind = "obj" =>
                      Data(At(tree, p)).kind \in
                          {PayloadKindOf(k) : k \in AllowedNodeKinds(ClassOf(At(tree, p).tag).type)}

\* the payload as to_json hands it on: itself, but for each element that is an
\* object, which is replaced by a one-key dict
ConvertedPayload(out, d) ==
    IF d.kind \in {"list", "dict"}
    THEN /\ out.kind = d.kind
         /\ out.keys = d.keys
         /\ Len(out.items) = Len(d.items)
         /\ \A i \in 1..Len(d.items) :
               IF d.items[i].kind = "obj"
               THEN out.items[i].kind = "dict" /\ Len(out.items[i].keys) = 1
               ELSE out.items[i] = d.items[i]
    ELSE out = d

\* C4: to_json returns a one-key dict. For a Ref whose str payload has a "."
\* and for a GetAtt with a str payload, the key is "Fn::GetAtt" and the value
\* the payload split on "."; for every other object the key is the semantic
\* name of its tag and the value its payload.
C4_JsonCanonical ==
    json # NoCall =>
        LET d == Data(json.self)
            out == json.ret
        IN /\ out.kind = "dict"
           /\ Len(out.keys) = 1
           /\ IF d.kind = "str" /\ (json.self.tag = "!GetAtt" \/ (json.self.tag = "!Ref" /\ HasDot(d.s)))
              THEN /\ out.keys[1] = PyStr(<<"Fn::GetAtt">>)
                   /\ out.items[1].kind = "list"
                   /\ \A i \in 1..Len(out.items[1].items) :
                         out.items[1].items[i].kind = "str" /\ ~HasDot(out.items[1].items[i].s)
                   /\ JoinDots(out.items[1].items) = d.s
              ELSE /\ out.keys[1] = PyStr(<<ClassOf(json.self.tag).name>>)
                   /\ ConvertedPayload(out.items[1], d)

\* to_json has been called on !Ref a.b and returned {"Fn::GetAtt": ["a", "b"]}
C4_Witness ==
    /\ json.self = Obj("!Ref", PyStr(<<"a", ".", "b">>))
    /\ json.ret = PyDict(<<PyStr(<<"Fn::GetAtt">>)>>, <<PyList(<<PyStr(<<"a">>), PyStr(<<"b">>)>>)>>)

\* C5: to_json leaves the tree as load_yaml built it, so whenever the tree is
\* dumped, before or after any to_json calls, each Ref with a dotted payload
\* is written as a !Ref scalar with that payload.
C5_OneDirectional ==
    /\ pc = "loaded" => tree = load_yaml(doc)
    /\ dumped # NoNode =>
          \A p \in Paths(tree) :
              (At(tree, p).kind = "obj" /\ At(tree, p).tag = "!Ref" /\ HasDot(Data(At(tree, p)).s)) =>
                  NodeAt(dumped, p) = ScalarNode("!Ref", Data(At(tree, p)).s, "'")

\* a dotted Ref has been converted to JSON (as a GetAtt) and the tree dumped
C5_Witness ==
    /\ dumped # NoNode
    /\ json.self.tag = "!Ref"
    /\ json.ret.kind = "dict"
    /\ json.ret.keys[1] = PyStr(<<"Fn::GetAtt">>)
    /\ \E p \in Paths(tree) : At(tree, p) = json.self

(***************************************************************************)
(* cfn_processing.py: the include resolver.                                *)
(*                                                                         *)
(* A path is the sequence of its components, each a name with its suffix   *)
(* (pathlib's Path.suffix) apart; an absolute path starts with Root.       *)
(***************************************************************************)
\* the number of nested yaml.load calls Python's recursion limit allows
RecursionLimit == 3

Root == [n |-> "/", x |-> ""]

DotDot == [n |-> "..", x |-> ""]

Name(n, x) == [n |-> n, x |-> x]

\* os.path.isabs
isabs(path) == Len(path) > 0 /\ path[1] = Root

\* os.path.dirname
dirname(path) == IF path = <<Root>> THEN path ELSE SubSeq(path, 1, Len(path) - 1)

\* os.path.join(a, b), for a relative b
join(a, b) == a \o b

RECURSIVE normpath(_)
\* os.path.normpath, on the text of the path alone
normpath(path) ==
    IF Len(path) = 0 THEN path
    ELSE LET front == normpath(SubSeq(path, 1, Len(path) - 1))
             last == path[Len(path)]
         IN IF last # DotDot THEN Append(front, last)
            ELSE IF front = <<Root>> THEN front
            ELSE IF Len(front) = 0 \/ front[Len(front)] = DotDot THEN Append(front, last)
            ELSE SubSeq(front, 1, Len(front) - 1)

\* os.path.abspath
abspath(path, wd) == normpath(IF isabs(path) THEN path ELSE join(wd, path))

\* str.lower() of a suffix
Lower(x) ==
    IF x \in {".YAML", ".Yaml"} THEN ".yaml"
    ELSE IF x \in {".YML", ".Yml"} THEN ".yml"
    ELSE IF x \in {".JSON", ".Json"} THEN ".json"
    ELSE x

\* mimetypes.guess_type(file_path)[0], from the suffix (looked up again in
\* lower case when unknown as written); "None" for no guess
guess_type(path) ==
    LET x == Lower(path[Len(path)].x)
    IN IF x = ".json" THEN "application/json"
       ELSE IF x = ".geojson" THEN "application/geo+json"
       ELSE IF x = ".txt" THEN "text/plain"
       ELSE "None"

\* "json" in mime_type
JsonIn(mime) == mime \in {"application/json", "application/geo+json"}

(***************************************************************************)
(* The files. A file's content is a text, known by what reading it as      *)
(* utf-8, yaml.load (with the processing loader) and json.loads make of    *)
(* it. A YAML text with an include tag is the document  y: !CFNTools-      *)
(* IncludeFile <path>.                                                     *)
(***************************************************************************)
IncludeNode(path) == ScalarNode("!CFNToolsIncludeFile", path, "None")

\* id: the text itself; utf8: whether its bytes decode; yaml, json: "value",
\* "error" or (yaml) "include", "document"; val: the value parsed; inc: the
\* include node; doc: the node graph of a document with tags
Text(id, utf8, asYaml, asJson, val, inc) ==
    [kind |-> "text", id |-> id, utf8 |-> utf8, yaml |-> asYaml, json |-> asJson, val |-> val, inc |-> inc,
     doc |-> NoNode]

\* {"a": 1}: JSON, and YAML in flow style
JsonText == Text("{\"a\": 1}", TRUE, "value", "value", PyDict(<<PyStr(<<"a">>)>>, <<PyInt(<<"1">>)>>), NoNode)

\* k: v
YamlText == Text("k: v", TRUE, "value", "error", PyDict(<<PyStr(<<"k">>)>>, <<PyStr(<<"v">>)>>), NoNode)

\* a lone "{"
BrokenText == Text("{", TRUE, "error", "error", Unset, NoNode)

\* bytes that are not utf-8
BinaryText == Text("\\xff\\xfe", FALSE, "error", "error", Unset, NoNode)

\* one word, a YAML plain scalar
PlainText(id) == Text(id, TRUE, "value", "error", PyStr(<<id>>), NoNode)

IncludeText(path) == Text("y: !CFNToolsIncludeFile", TRUE, "include", "error", Unset, IncludeNode(path))

\* a YAML text with CloudFormation tags and a to-string tag, and no include
DocumentText(id, node) == [Text(id, TRUE, "document", "error", Unset, NoNode) EXCEPT !.doc = node]

\* a scalar written plain
Plain(value) == ScalarNode("", value, "None")

\* k: !Ref a
\* g: !GetAtt [a, b]
\* s: !CFNToolsToString [{j: !Sub b}]
TaggedDocument ==
    MappingNode("", <<Plain(<<"k">>), Plain(<<"g">>), Plain(<<"s">>)>>,
                << ScalarNode("!Ref", <<"a">>, "None"),
                   SequenceNode("!GetAtt", <<Plain(<<"a">>), Plain(<<"b">>)>>),
                   SequenceNode("!CFNToolsToString",
                                <<MappingNode("", <<Plain(<<"j">>)>>, <<ScalarNode("!Sub", <<"b">>, "None")>>)>>) >>)

DirA == <<Root, Name("a", "")>>

DirB == <<Root, Name("a", ""), Name("b", "")>>

DirC == <<Root, Name("a", ""), Name("c", "")>>

Directories == {<<Root>>, DirA, DirB, DirC}

FilesInC ==
    { [name |-> Name("data", ".yaml"), text |-> IncludeText(<<Name("leaf", ".txt")>>)],
      [name |-> Name("leaf", ".txt"), text |-> PlainText("in-c")],
      [name |-> Name("x", ".json"), text |-> JsonText],
      [name |-> Name("X", ".JSON"), text |-> JsonText],
      [name |-> Name("geo", ".geojson"), text |-> JsonText],
      [name |-> Name("json", ".txt"), text |-> JsonText],
      [name |-> Name("kv", ".json"), text |-> YamlText],
      [name |-> Name("kv", ".YML"), text |-> YamlText],
      [name |-> Name("bad", ".yaml"), text |-> BrokenText],
      [name |-> Name("bin", ".txt"), text |-> BinaryText],
      [name |-> Name("miss", ".yaml"), text |-> IncludeText(<<Name("nope", ".txt")>>)],
      [name |-> Name("outer", ".yaml"), text |-> IncludeText(<<Name("kv", ".json")>>)],
      [name |-> Name("loop", ".yaml"), text |-> IncludeText(<<Name("loop", ".yaml")>>)],
      [name |-> Name("ping", ".yaml"), text |-> IncludeText(<<Root, Name("a", ""), Name("c", ""), Name("pong", ".yaml")>>)],
      [name |-> Name("pong", ".yaml"), text |-> IncludeText(<<Root, Name("a", ""), Name("c", ""), Name("ping", ".yaml")>>)],
      [name |-> Name("notes", ""), text |-> YamlText],
      [name |-> Name("tags", ".yaml"), text |-> DocumentText("k: !Ref a ...", TaggedDocument)],
      [name |-> Name("deep", ".yaml"), text |-> IncludeText(<<Root, Name("a", ""), Name("c", ""), Name("tags", ".yaml")>>)],
      [name |-> Name("deeper", ".yaml"), text |-> IncludeText(<<Root, Name("a", ""), Name("c", ""), Name("deep", ".yaml")>>)] }

Files ==
    { [path |-> Append(DirC, f.name), text |-> f.text] : f \in FilesInC }
    \cup { [path |-> Append(DirB, Name("template", ".yaml")),
            text |-> IncludeText(<<DotDot, Name("c", ""), Name("data", ".yaml")>>)],
           [path |-> Append(DirB, Name("leaf", ".txt")), text |-> PlainText("in-b")] }

\* nothing there
NoPath == <<>>

RECURSIVE Walk(_, _)
\* the place the operating system reaches from the directory at by the
\* components rest (".." is the parent of a directory that exists)
Walk(at, rest) ==
    IF Len(rest) = 0 THEN at
    ELSE IF at \notin Directories THEN NoPath
    ELSE IF Head(rest) = Root THEN Walk(<<Root>>, Tail(rest))
    ELSE IF Head(rest) = DotDot THEN Walk(dirname(at), Tail(rest))
    ELSE Walk(Append(at, Head(rest)), Tail(rest))

\* the file or directory a path names for a process in wd, or NoPath
Lookup(path, wd) ==
    LET at == Walk(wd, path)
    IN IF at \in Directories \/ \E f \in Files : f.path = at THEN at ELSE NoPath

\* os.path.exists
exists(path, wd) == Len(path) > 0 /\ Lookup(path, wd) # NoPath

FileAt(at) == CHOOSE f \in Files : f.path = at

(***************************************************************************)
(* The serializers construct_cfntools_to_string calls: json.dumps,         *)
(* yaml.dump and str, each writing its text character by character.        *)
(***************************************************************************)
RECURSIVE Concat(_)
\* the texts of a list, one after the other
Concat(texts) == IF Len(texts) = 0 THEN <<>> ELSE Head(texts) \o Concat(Tail(texts))

RECURSIVE JoinTexts(_, _)
\* sep.join(texts)
JoinTexts(texts, sep) ==
    IF Len(texts) = 0 THEN <<>>
    ELSE IF Len(texts) = 1 THEN texts[1]
    ELSE texts[1] \o sep \o JoinTexts(Tail(texts), sep)

Spaces(n) == [i \in 1..n |-> " "]

RECURSIVE JsonEscape(_)
\* the characters json writes for those of a str (ensure_ascii=False)
JsonEscape(s) ==
    IF Len(s) = 0 THEN <<>>
    ELSE (IF Head(s) = "\"" THEN <<"\\", "\"">>
          ELSE IF Head(s) = "\\" THEN <<"\\", "\\">>
          ELSE IF Head(s) = "\n" THEN <<"\\", "n">>
          ELSE <<Head(s)>>) \o JsonEscape(Tail(s))

JsonString(s) == <<"\"">> \o JsonEscape(s) \o <<"\"">>

\* the key json writes for a dict key: a str as it is, an int, bool or None
\* as its JSON text
JsonKey(k) == IF k.kind = "null" THEN NullText ELSE k.s

RECURSIVE JsonSerializable(_)
\* whether json.dumps has an encoding for every part of v; for an object of
\* any other class JSONEncoder.default raises TypeError
JsonSerializable(v) ==
    IF v.kind \in {"str", "int", "bool", "null"} THEN TRUE
    ELSE IF v.kind = "list" THEN \A i \in 1..Len(v.items) : JsonSerializable(v.items[i])
    ELSE IF v.kind = "dict"
    THEN /\ \A i \in 1..Len(v.keys) : v.keys[i].kind \in {"str", "int", "bool", "null"}
         /\ \A i \in 1..Len(v.items) : JsonSerializable(v.items[i])
    ELSE FALSE

RECURSIVE JsonOf(_, _, _)
\* the text json.dumps writes for v nested level deep: with
\* separators=(",", ":") when compact, with indent=2 otherwise
JsonOf(v, compact, level) ==
    IF v.kind = "str" THEN JsonString(v.s)
    ELSE IF v.kind \in {"int", "bool"} THEN v.s
    ELSE IF v.kind = "null" THEN NullText
    ELSE LET n == Len(v.items)
             open == IF v.kind = "list" THEN "[" ELSE "{"
             close == IF v.kind = "list" THEN "]" ELSE "}"
             parts == [i \in 1..n |->
                         (IF v.kind = "list" THEN <<>>
                          ELSE JsonString(JsonKey(v.keys[i])) \o (IF compact THEN <<":">> ELSE <<":", " ">>))
                         \o JsonOf(v.items[i], compact, level + 1)]
         IN IF n = 0 THEN <<open, close>>
            ELSE IF compact THEN <<open>> \o JoinTexts(parts, <<",">>) \o <<close>>
            ELSE <<open, "\n">>
                 \o JoinTexts([i \in 1..n |-> Spaces(2 * (level + 1)) \o parts[i]], <<",", "\n">>)
                 \o <<"\n">> \o Spaces(2 * level) \o <<close>>

\* json.dumps(v, ..., ensure_ascii=False)
json_dumps(v, compact) ==
    IF JsonSerializable(v) THEN PyStr(JsonOf(v, compact, 0)) ELSE Raised("TypeError")

\* a character that is not ASCII
EAcute == "é"

\* the characters yaml writes in a plain scalar without a second look (of
\* the characters this model's texts are made of)
PlainChars == Letters \cup Digits \cup {".", "_"}

RECURSIVE DoubledQuotes(_)
\* the characters of a single-quoted scalar: a quote is written twice
DoubledQuotes(s) ==
    IF Len(s) = 0 THEN <<>>
    ELSE (IF Head(s) = "'" THEN <<"'", "'">> ELSE <<Head(s)>>) \o DoubledQuotes(Tail(s))

RECURSIVE Escaped(_)
\* the characters of a double-quoted scalar, what is not ASCII escaped
Escaped(s) ==
    IF Len(s) = 0 THEN <<>>
    ELSE (IF Head(s) = EAcute THEN <<"\\", "x", "E", "9">> ELSE <<Head(s)>>) \o Escaped(Tail(s))

\* the text yaml.dump writes for a scalar: a str plain when it reads back as
\* a str, in double quotes when it holds what may not be written as it is, in
\* single quotes otherwise; an int, bool or None as its YAML text
YamlScalar(v, allow_unicode) ==
    LET plain == PlainChars \cup (IF allow_unicode THEN {EAcute} ELSE {})
    IN IF v.kind = "null" THEN NullText
       ELSE IF v.kind \in {"int", "bool"} THEN v.s
       ELSE IF Len(v.s) > 0 /\ ResolveScalar(v.s) = StrTag /\ \A i \in 1..Len(v.s) : v.s[i] \in plain
       THEN v.s
       ELSE IF ~allow_unicode /\ \E i \in 1..Len(v.s) : v.s[i] = EAcute
       THEN <<"\"">> \o Escaped(v.s) \o <<"\"">>
       ELSE <<"'">> \o DoubledQuotes(v.s) \o <<"'">>

RECURSIVE FlowText(_, _)
\* a value in flow style
FlowText(v, allow_unicode) ==
    IF v.kind = "list"
    THEN <<"[">> \o JoinTexts([i \in 1..Len(v.items) |-> FlowText(v.items[i], allow_unicode)], <<",", " ">>) \o <<"]">>
    ELSE IF v.kind = "dict"
    THEN <<"{">> \o JoinTexts([i \in 1..Len(v.keys) |->
                     YamlScalar(v.keys[i], allow_unicode) \o <<":", " ">> \o FlowText(v.items[i], allow_unicode)],
                 <<",", " ">>) \o <<"}">>
    ELSE YamlScalar(v, allow_unicode)

IsScalar(v) == v.kind \in {"str", "int", "bool", "null"}

\* what yaml.dump writes on one line: a scalar, an empty collection and, with
\* default_flow_style None, a collection of scalars
IsInline(v, default_flow_style) ==
    \/ IsScalar(v)
    \/ /\ v.kind \in {"list", "dict"}
       /\ \/ Len(v.items) = 0
          \/ default_flow_style = "None" /\ \A i \in 1..Len(v.items) : IsScalar(v.items[i])

\* the name of a tag without its "!", as the table writes it
TagName(tag) ==
    LET rows == functions \o <<ref, condition>>
    IN rows[CHOOSE i \in 1..Len(rows) : "!" \o rows[i].tag = tag].tag

\* the tag yaml.Dumper writes for an instance of a class it has no
\* representer for
PythonObjectTag(obj) == <<"!!python/object:cfn_tools.cfn_yaml.", TagName(obj.tag), "Tag">>

RECURSIVE YamlLines(_, _, _, _, _)
\* the lines yaml.dump writes in block style for a collection, or an object,
\* from column ind: a sequence in a mapping is not indented, a collection in
\* a sequence starts on the line of its "- ", an object is written as the
\* tagged mapping of its attributes; what is nested is written indent columns
\* further in
YamlLines(v, ind, default_flow_style, allow_unicode, indent) ==
    LET attrs(o) == PyDict(<<PyStr(<<"v", "a", "l", "u", "e">>)>>, <<Data(o)>>)
        lines(w, at) == YamlLines(w, at, default_flow_style, allow_unicode, indent)
        entry(k, w) ==
            IF IsInline(w, default_flow_style)
            THEN << Spaces(ind) \o YamlScalar(k, allow_unicode) \o <<":", " ">> \o FlowText(w, allow_unicode) >>
            ELSE IF w.kind = "obj"
            THEN << Spaces(ind) \o YamlScalar(k, allow_unicode) \o <<":", " ">> \o PythonObjectTag(w) >>
                 \o lines(attrs(w), ind + indent)
            ELSE << Spaces(ind) \o YamlScalar(k, allow_unicode) \o <<":">> >>
                 \o lines(w, IF w.kind = "list" THEN ind ELSE ind + indent)
        item(w) ==
            IF IsInline(w, default_flow_style) THEN << Spaces(ind) \o <<"-", " ">> \o FlowText(w, allow_unicode) >>
            ELSE IF w.kind = "obj"
            THEN << Spaces(ind) \o <<"-", " ">> \o PythonObjectTag(w) >> \o lines(attrs(w), ind + indent)
            ELSE LET sub == lines(w, ind + indent)
                 IN << Spaces(ind) \o <<"-">> \o SubSeq(sub[1], ind + 2, Len(sub[1])) >> \o Tail(sub)
    IN IF v.kind = "dict" THEN Concat([i \in 1..Len(v.keys) |-> entry(v.keys[i], v.items[i])])
       ELSE IF v.kind = "list" THEN Concat([i \in 1..Len(v.items) |-> item(v.items[i])])
       ELSE << PythonObjectTag(v) >> \o lines(attrs(v), ind)

\* the place of a character in the order of code points
Rank(c) ==
    LET order == <<"0", "1", "2", "3", "4", "5", "6", "7", "8", "9",
                   "A", "B", "C", "D", "E", "F", "G", "H", "I", "J", "K", "L", "M",
                   "N", "O", "P", "Q", "R", "S", "T", "U", "V", "W", "X", "Y", "Z",
                   "a", "b", "c", "d", "e", "f", "g", "h", "i", "j", "k", "l", "m",
                   "n", "o", "p", "q", "r", "s", "t", "u", "v", "w", "x", "y", "z">>
    IN CHOOSE i \in 1..Len(order) : order[i] = c

RECURSIVE Before(_, _)
\* s < t for two strs
Before(s, t) ==
    IF Len(t) = 0 THEN FALSE
    ELSE IF Len(s) = 0 THEN TRUE
    ELSE IF Head(s) # Head(t) THEN Rank(Head(s)) < Rank(Head(t))
    ELSE Before(Tail(s), Tail(t))

RECURSIVE SortKeys(_)
\* the value as the representer walks it with sort_keys: the items of every
\* dict sorted by key (the keys are strs)
SortKeys(v) ==
    IF v.kind = "list" THEN PyList([i \in 1..Len(v.items) |-> SortKeys(v.items[i])])
    ELSE IF v.kind = "dict"
    THEN LET place(i) == 1 + Cardinality({j \in 1..Len(v.keys) : Before(v.keys[j].s, v.keys[i].s)})
             from(p) == CHOOSE i \in 1..Len(v.keys) : place(i) = p
         IN PyDict([p \in 1..Len(v.keys) |-> v.keys[from(p)]],
                   [p \in 1..Len(v.keys) |-> SortKeys(v.items[from(p)])])
    ELSE v

\* yaml.dump(data, default_flow_style=..., sort_keys=..., allow_unicode=...,
\* indent=...)
yaml_dump_indent(data, default_flow_style, sort_keys, allow_unicode, indent) ==
    LET v == IF sort_keys THEN SortKeys(data) ELSE data
    IN IF default_flow_style = "True" \/ IsInline(v, default_flow_style)
       THEN FlowText(v, allow_unicode) \o <<"\n">>
       ELSE JoinTexts(YamlLines(v, 0, default_flow_style, allow_unicode, indent), <<"\n">>) \o <<"\n">>

\* yaml.dump(data, default_flow_style=..., sort_keys=..., allow_unicode=...):
\* without indent the emitter indents by 2
yaml_dump_with(data, default_flow_style, sort_keys, allow_unicode) ==
    yaml_dump_indent(data, default_flow_style, sort_keys, allow_unicode, 2)

\* yaml.dump(v, default_flow_style=False, sort_keys=False)
yaml_dump(v) == yaml_dump_with(v, "False", FALSE, FALSE)

RECURSIVE rstrip(_)
\* str.rstrip("\n")
rstrip(s) == IF Len(s) > 0 /\ s[Len(s)] = "\n" THEN rstrip(SubSeq(s, 1, Len(s) - 1)) ELSE s

\* str(value) of a value that is no str, dict or list; an object without
\* __str__ gives the default text, with its class and its address
str(v) ==
    IF v.kind = "int" THEN v.s
    ELSE IF v.kind = "bool" THEN (IF v.s = TrueText THEN <<"T", "r", "u", "e">> ELSE <<"F", "a", "l", "s", "e">>)
    ELSE IF v.kind = "null" THEN <<"N", "o", "n", "e">>
    ELSE <<"<cfn_tools.cfn_yaml.", TagName(v.tag), "Tag object at 0x...>">>

RECURSIVE replace(_, _, _)
\* str.replace(old, new), old and new one character each
replace(s, old, new) ==
    IF Len(s) = 0 THEN <<>>
    ELSE <<IF Head(s) = old THEN new ELSE Head(s)>> \o replace(Tail(s), old, new)

(***************************************************************************)
(* The loaders and construct_cfntools_to_string. A loader is known by its  *)
(* class: yaml.SafeLoader, cfn_yaml's CloudFormationLoader and the         *)
(* CloudFormationProcessingLoader built on it. The names of the options    *)
(* and the two literals of ConvertTo are texts of one piece.               *)
(***************************************************************************)
SafeLoader == "SafeLoader"

CloudFormationProcessingLoader == "CloudFormationProcessingLoader"

ToStringTag == "!CFNToolsToString"

IncludeFileTag == "!CFNToolsIncludeFile"

\* the tags a loader class has a constructor for, its own and its bases'
constructors(Loader) ==
    IF Loader = CloudFormationProcessingLoader THEN RegisteredTags \cup {IncludeFileTag, ToStringTag}
    ELSE IF Loader = CloudFormationLoader THEN RegisteredTags
    ELSE {}

\* yaml.constructor.ConstructorError raised by construct_cfntools_to_string
ToStringError(msg) == [kind |-> "error", tag |-> "ConstructorError", s |-> <<msg>>, keys |-> <<>>, items |-> <<>>]

ExpectedSequence == "expected a sequence node"

RequiresParameter == "!CFNToolsToString requires at least one parameter"

OptionsMustBeMapping == "!CFNToolsToString optional parameters must be a mapping"

ConvertToMustBe == "!CFNToolsToString ConvertTo must be \"YAMLString\" or \"JSONString\""

OneLineMustBe == "!CFNToolsToString OneLine must be a boolean"

ConvertTo == PyStr(<<"ConvertTo">>)

OneLine == PyStr(<<"OneLine">>)

YAMLString == PyStr(<<"YAMLString">>)

JSONString == PyStr(<<"JSONString">>)

\* key in d
In(key, d) == \E i \in 1..Len(d.keys) : d.keys[i] = key

\* d[key]
Get(d, key) == d.items[CHOOSE i \in 1..Len(d.keys) : d.keys[i] = key]

\* cloudformation_tag_to_dict: the class of a tag !X is named XTag
cloudformation_tag_to_dict(tag) == PyDict(<<PyStr(<<"!", TagName(tag.tag)>>)>>, <<tag.value>>)

RECURSIVE prepare_value_for_serialization(_)
\* prepare_value_for_serialization: a tag becomes a dict holding its value as
\* it is; the values of a dict and the elements of a list are prepared
prepare_value_for_serialization(value) ==
    IF value.kind = "obj" THEN cloudformation_tag_to_dict([tag |-> value.tag, value |-> Data(value)])
    ELSE IF value.kind = "dict"
    THEN PyDict(value.keys, [i \in 1..Len(value.items) |-> prepare_value_for_serialization(value.items[i])])
    ELSE IF value.kind = "list"
    THEN PyList([i \in 1..Len(value.items) |-> prepare_value_for_serialization(value.items[i])])
    ELSE value

\* checks that look at the options only when the value is no str
options_error_unless_str(values) ==
    IF Len(values) = 0 THEN ToStringError(RequiresParameter)
    ELSE IF Len(values) = 1 \/ values[1].kind = "str" THEN Unset
    ELSE IF values[2].kind # "dict" THEN ToStringError(OptionsMustBeMapping)
    ELSE IF In(ConvertTo, values[2]) /\ Get(values[2], ConvertTo) \notin {YAMLString, JSONString}
    THEN ToStringError(ConvertToMustBe)
    ELSE IF In(OneLine, values[2]) /\ Get(values[2], OneLine).kind # "bool"
    THEN ToStringError(OneLineMustBe)
    ELSE Unset

\* the checks on the constructed values: the error raised, or Unset
options_error(values) ==
    IF Len(values) = 0 THEN ToStringError(RequiresParameter)
    ELSE IF Len(values) = 1 THEN Unset
    ELSE IF values[2].kind # "dict" THEN ToStringError(OptionsMustBeMapping)
    ELSE IF In(ConvertTo, values[2]) /\ Get(values[2], ConvertTo) \notin {YAMLString, JSONString}
    THEN ToStringError(ConvertToMustBe)
    ELSE IF In(OneLine, values[2]) /\ Get(values[2], OneLine).kind # "bool"
    THEN ToStringError(OneLineMustBe)
    ELSE Unset

\* a conversion in which OneLine joins the lines of every text made
convert_collapsing(value, convert_to, one_line) ==
    LET join_lines(r) == IF one_line /\ r.kind = "str" THEN PyStr(replace(r.s, "\n", " ")) ELSE r
    IN IF value.kind = "str" THEN join_lines(value)
       ELSE IF value.kind \in {"dict", "list"}
       THEN LET prepared_value == prepare_value_for_serialization(value)
            IN IF convert_to = YAMLString THEN join_lines(PyStr(rstrip(yaml_dump(prepared_value))))
               ELSE json_dumps(prepared_value, one_line)
       ELSE PyStr(str(value))

\* the text made of value once the options are known
convert(value, convert_to, one_line) ==
    IF value.kind = "str" THEN PyStr(IF one_line THEN replace(value.s, "\n", " ") ELSE value.s)
    ELSE IF value.kind \in {"dict", "list"}
    THEN LET prepared_value == prepare_value_for_serialization(value)
         IN IF convert_to = YAMLString THEN PyStr(rstrip(yaml_dump(prepared_value)))
            ELSE json_dumps(prepared_value, one_line)
    ELSE PyStr(str(value))

RECURSIVE loader_construct_object(_, _), loader_construct_sequence(_, _), loader_construct_mapping(_, _)
RECURSIVE construct_cloudformation_tag(_, _), construct_cfntools_to_string(_, _)
\* loader.construct_sequence(node, deep=False) called before the document is
\* constructed: an element that is a plain sequence or mapping is handed on
\* empty, to be filled when the handler has returned
loader_construct_sequence_shallow(Loader, node) ==
    IF node.kind # "sequence" THEN Raised("ConstructorError")
    ELSE LET vs == [i \in 1..Len(node.items) |->
                       IF node.items[i].tag = SeqTag THEN PyList(<<>>)
                       ELSE IF node.items[i].tag = MapTag THEN PyDict(<<>>, <<>>)
                       ELSE loader_construct_object(Loader, node.items[i])]
         IN IF AnyErr(vs) THEN FirstErr(vs) ELSE PyList(vs)

\* loader.construct_sequence(node, deep=True)
loader_construct_sequence(Loader, node) ==
    IF node.kind # "sequence" THEN Raised("ConstructorError")
    ELSE LET vs == [i \in 1..Len(node.items) |-> loader_construct_object(Loader, node.items[i])]
         IN IF AnyErr(vs) THEN FirstErr(vs) ELSE PyList(vs)

\* loader.construct_mapping(node, deep=True)
loader_construct_mapping(Loader, node) ==
    IF node.kind # "mapping" THEN Raised("ConstructorError")
    ELSE LET flat == flatten_mapping(node)
             ks == [i \in 1..Len(flat.keys) |-> loader_construct_object(Loader, flat.keys[i])]
             vs == [i \in 1..Len(flat.items) |-> loader_construct_object(Loader, flat.items[i])]
         IN IF AnyErr(ks) THEN FirstErr(ks)
            ELSE IF \E i \in 1..Len(ks) : ks[i].kind \in {"list", "dict", "obj"} THEN Raised("ConstructorError")
            ELSE IF AnyErr(vs) THEN FirstErr(vs)
            ELSE DictOf(ks, vs)

\* cfn_yaml's constructor for a CloudFormation tag: a Tagged Value holding the
\* payload, of the shape the tag declares, constructed by the same loader
construct_cloudformation_tag(Loader, node) ==
    LET type == ClassOf(node.tag).type
        scalar == IF node.kind = "scalar" THEN PyStr(node.value) ELSE Raised("ConstructorError")
        sequence == loader_construct_sequence(Loader, node)
        mapping == loader_construct_mapping(Loader, node)
        payload == IF type = SCALAR THEN scalar
                   ELSE IF type = SEQUENCE THEN sequence
                   ELSE IF type = SEQUENCE_OR_SCALAR
                   THEN (IF node.kind = "sequence" THEN sequence ELSE scalar)
                   ELSE IF type = MAPPING THEN mapping
                   ELSE (IF node.kind = "mapping" THEN mapping ELSE scalar)
    IN IF IsErr(payload) THEN payload ELSE Obj(node.tag, payload)

\* construct_cfntools_to_string
construct_cfntools_to_string(Loader, node) ==
    LET values == loader_construct_sequence(Loader, node)
        options == values.items[2]
        convert_to == IF Len(values.items) > 1 /\ In(ConvertTo, options) THEN Get(options, ConvertTo) ELSE JSONString
        one_line == Len(values.items) > 1 /\ In(OneLine, options) /\ Get(options, OneLine).s = TrueText
    IN IF node.kind # "sequence" THEN ToStringError(ExpectedSequence)
       ELSE IF IsErr(values) THEN values
       ELSE IF options_error(values.items) # Unset THEN options_error(values.items)
       ELSE convert(values.items[1], convert_to, one_line)

\* loader.construct_object(node, deep=True): the constructor the loader's
\* class has for the node's tag. An include node is constructed by the Include
\* action below, one handler at a time: the documents constructed here in one
\* piece hold none.
loader_construct_object(Loader, node) ==
    IF node.kind = "constructed" THEN node.items[1]
    ELSE IF node.tag = ToStringTag /\ ToStringTag \in constructors(Loader) THEN construct_cfntools_to_string(Loader, node)
    ELSE IF node.tag \in RegisteredTags /\ node.tag \in constructors(Loader)
    THEN construct_cloudformation_tag(Loader, node)
    ELSE IF node.tag = StrTag THEN construct_scalar(node)
    ELSE IF node.tag = IntTag THEN PyInt(node.value)
    ELSE IF node.tag = BoolTag THEN PyBool(node.value)
    ELSE IF node.tag = NullTag THEN PyNone
    ELSE IF node.tag = SeqTag THEN loader_construct_sequence(Loader, node)
    ELSE IF node.tag = MapTag THEN loader_construct_mapping(Loader, node)
    ELSE Raised("ConstructorError")

\* yaml.load(stream, Loader=Loader), the stream given as its node graph
yaml_load(stream, Loader) == loader_construct_object(Loader, Compose(stream))

(***************************************************************************)
(* construct_cfntools_include_file.                                        *)
(***************************************************************************)
\* yaml.constructor.ConstructorError raised by the handler: its message, the
\* path the message names and, for a wrapped error, the error it wraps
IncludeError(msg, path, cause) ==
    [kind |-> "error", tag |-> "ConstructorError", s |-> <<msg>>, keys |-> path, items |-> <<cause>>]

ExpectedScalar == "expected a scalar node for file path"

MustSpecify == "!CFNToolsIncludeFile tag must specify a file path"

FileNotFound == "!CFNToolsIncludeFile: file not found"

ErrorReading == "!CFNToolsIncludeFile: error reading file"

\* the name yaml gives a loader built on a str
UnicodeString == <<Name("<unicode string>", "")>>

\* the checks on the node without the emptiness check
argument_error_unchecked_empty(node) ==
    IF node.kind # "scalar" THEN IncludeError(ExpectedScalar, <<>>, Unset) ELSE Unset

\* the checks on the node: the error raised, or Unset
argument_error(node) ==
    IF node.kind # "scalar" THEN IncludeError(ExpectedScalar, <<>>, Unset)
    ELSE IF Len(node.value) = 0 THEN IncludeError(MustSpecify, <<>>, Unset)
    ELSE Unset

\* a resolution that normalises the joined path
resolve_normalised(name, file_path, wd) ==
    IF isabs(file_path) THEN file_path
    ELSE IF Len(name) > 0 THEN normpath(join(dirname(name), file_path))
    ELSE abspath(file_path, wd)

\* file_path after "if not os.path.isabs(file_path)"
resolve(name, file_path, wd) ==
    IF isabs(file_path) THEN file_path
    ELSE IF Len(name) > 0 THEN join(dirname(name), file_path)
    ELSE abspath(file_path, wd)

\* a dispatch on the suffix as written
dispatch_case_sensitive(file_path) ==
    LET mime_type == guess_type(file_path)
        file_extension == file_path[Len(file_path)].x
    IN IF file_extension \in {".yaml", ".yml"} THEN "yaml"
       ELSE IF file_extension = ".json" \/ (mime_type # "None" /\ JsonIn(mime_type)) THEN "json"
       ELSE "text"

\* the branch taken on the content
dispatch(file_path) ==
    LET mime_type == guess_type(file_path)
        file_extension == Lower(file_path[Len(file_path)].x)
    IN IF file_extension \in {".yaml", ".yml"} THEN "yaml"
       ELSE IF file_extension = ".json" \/ (mime_type # "None" /\ JsonIn(mime_type)) THEN "json"
       ELSE "text"

\* open(file_path, "r", encoding="utf-8") and f.read(): the text or the error
read(file_path, wd) ==
    LET at == Lookup(file_path, wd)
    IN IF at \in Directories THEN Raised("IsADirectoryError")
       ELSE IF ~FileAt(at).text.utf8 THEN Raised("UnicodeDecodeError")
       ELSE FileAt(at).text

\* an except clause that returns None
wrap_swallowed(file_path, e) == PyNone

\* except Exception as e: raise ConstructorError(... file_path ... str(e))
wrap(file_path, e) == IncludeError(ErrorReading, file_path, e)

\* the documents of the files, and yaml.load of each by each loader class
Documents == { f.text.doc : f \in FilesInC } \ {NoNode}

Loads ==
    [Loader \in {CloudFormationLoader, CloudFormationProcessingLoader} |->
        [stream \in Documents |-> yaml_load(stream, Loader)]]

\* a nested load by the loader the handler is registered on's base class
nested_yaml_load_base(content) == Loads[CloudFormationLoader][content.doc]

\* yaml.load(content, Loader=loader.__class__) of a document without an
\* include: the handler is registered on CloudFormationProcessingLoader, which
\* is the class of the loader that calls it
nested_yaml_load(content) == Loads[CloudFormationProcessingLoader][content.doc]

\* what the handler makes of the nested yaml.load of a document with an
\* include, once that include's handler returned or raised ret
after_nested_load(file_path, ret) ==
    IF IsErr(ret) THEN wrap(file_path, ret) ELSE PyDict(<<PyStr(<<"y">>)>>, <<ret>>)

Step(file_path, phase, branch, out, opens, nested) ==
    [file_path |-> file_path, phase |-> phase, branch |-> branch, out |-> out, opens |-> opens, nested |-> nested]

\* a nested load that the interpreter does not stop: the handler does not return
recursion_unlimited(file_path, branch) == Step(file_path, "called", branch, Unset, FALSE, NoNode)

\* the nested yaml.load at the interpreter's recursion limit: RecursionError is
\* an Exception, caught and wrapped as any other
recursion_limit(file_path, branch) ==
    Step(file_path, "done", branch, wrap(file_path, Raised("RecursionError")), TRUE, NoNode)

\* the handler run by a loader named name on node, in working directory wd,
\* as the depth-th handler of the load: up to its return, its raise, or its
\* nested yaml.load reaching that document's include node
construct_cfntools_include_file(name, node, wd, depth) ==
    LET file_path == resolve(name, node.value, wd)
        content == read(file_path, wd)
        branch == dispatch(file_path)
    IN IF argument_error(node) # Unset
       THEN Step(<<>>, "done", "none", argument_error(node), FALSE, NoNode)
       ELSE IF ~exists(file_path, wd)
       THEN Step(file_path, "done", "none", IncludeError(FileNotFound, file_path, Unset), FALSE, NoNode)
       ELSE IF IsErr(content)
       THEN Step(file_path, "done", "none", wrap(file_path, content), TRUE, NoNode)
       ELSE IF branch = "yaml"
       THEN IF content.yaml = "error"
            THEN Step(file_path, "done", branch, wrap(file_path, Raised("YAMLError")), TRUE, NoNode)
            ELSE IF content.yaml = "value"
            THEN Step(file_path, "done", branch, content.val, TRUE, NoNode)
            ELSE IF content.yaml = "document"
            THEN Step(file_path, "done", branch,
                      IF IsErr(nested_yaml_load(content)) THEN wrap(file_path, nested_yaml_load(content))
                      ELSE nested_yaml_load(content),
                      TRUE, NoNode)
            ELSE IF depth >= RecursionLimit
            THEN recursion_limit(file_path, branch)
            ELSE Step(file_path, "waiting", branch, Unset, TRUE, content.inc)
       ELSE IF branch = "json"
       THEN IF content.json = "error"
            THEN Step(file_path, "done", branch, wrap(file_path, Raised("JSONDecodeError")), TRUE, NoNode)
            ELSE Step(file_path, "done", branch, content.val, TRUE, NoNode)
       ELSE Step(file_path, "done", branch, PyStr(<<content.id>>), TRUE, NoNode)

(***************************************************************************)
(* The include resolver as a state machine: a document whose one tagged    *)
(* node is an include node is loaded by load_yaml(stream, file_name); each *)
(* handler runs up to its nested yaml.load, and resumes when that returns. *)
(***************************************************************************)
Cwds == {DirB, DirC}

\* file_name: None, the template's path, a bare name, a path in no directory
Origins ==
    { <<>>,
      Append(DirB, Name("template", ".yaml")),
      <<Name("template", ".yaml")>>,
      <<Root, Name("a", ""), Name("zz", ""), Name("template", ".yaml")>> }

PathPool ==
    { <<>>, DirC, <<DotDot, Name("c", "")>>, <<Name("nope", ".txt")>> }
    \cup { Append(DirC, f.name) : f \in FilesInC }
    \cup { <<DotDot, Name("c", ""), f.name>> : f \in FilesInC }
    \cup { <<f.name>> : f \in FilesInC }

IncludeNodes ==
    { IncludeNode(p) : p \in PathPool }
    \cup { SequenceNode("!CFNToolsIncludeFile", <<ScalarNode("", <<Name("leaf", ".txt")>>, "None")>>),
           MappingNode("!CFNToolsIncludeFile", <<ScalarNode("", <<"=">>, "None")>>,
                       <<ScalarNode("", <<Name("leaf", ".txt")>>, "None")>>) }

Frame(name, node) ==
    [name |-> name, node |-> node, file_path |-> <<>>, phase |-> "called", branch |-> "none", out |-> Unset]

TagIdle ==
    /\ doc = NoNode
    /\ pc = "idle"
    /\ tree = Unset
    /\ dumped = NoNode
    /\ reloaded = Unset
    /\ json = NoCall

InitInclude ==
    /\ TagIdle
    /\ cwd \in Cwds
    /\ call \in [node : IncludeNodes, file_name : Origins]
    /\ stack = <<>>
    /\ result = Unset
    /\ opened = <<>>
    /\ Imported

\* load_yaml(stream, file_name) constructs the document down to its include node
LoadYaml ==
    /\ stack = <<>>
    /\ stack' = <<Frame(IF Len(call.file_name) > 0 THEN call.file_name ELSE UnicodeString, call.node)>>
    /\ UNCHANGED <<cwd, call, result, opened>>
    /\ UNCHANGED tagVars
    /\ UNCHANGED regVars

\* the handler called last runs
Include ==
    /\ Len(stack) > 0
    /\ stack[Len(stack)].phase = "called"
    /\ \E f \in {stack[Len(stack)]} :
       \E r \in {construct_cfntools_include_file(f.name, f.node, cwd, Len(stack))} :
          /\ stack' = [stack EXCEPT ![Len(stack)] =
                          [f EXCEPT !.file_path = r.file_path, !.phase = r.phase,
                                    !.branch = r.branch, !.out = r.out]]
                      \o (IF r.phase = "waiting" THEN <<Frame(UnicodeString, r.nested)>> ELSE <<>>)
          /\ opened' = IF r.opens THEN Append(opened, r.file_path) ELSE opened
    /\ UNCHANGED <<cwd, call, result>>
    /\ UNCHANGED tagVars
    /\ UNCHANGED regVars

\* a nested yaml.load returns or raises into the handler that called it
Resume ==
    /\ \E i \in 1..(Len(stack) - 1) :
          /\ stack[i].phase = "waiting"
          /\ stack[i + 1].phase = "done"
          /\ stack' = [stack EXCEPT ![i].phase = "done",
                                    ![i].out = after_nested_load(stack[i].file_path, stack[i + 1].out)]
    /\ UNCHANGED <<cwd, call, result, opened>>
    /\ UNCHANGED tagVars
    /\ UNCHANGED regVars

\* load_yaml returns the document, or the handler's error leaves it
Return ==
    /\ Len(stack) > 0
    /\ stack[1].phase = "done"
    /\ result = Unset
    /\ result' = IF IsErr(stack[1].out) THEN stack[1].out ELSE PyDict(<<PyStr(<<"x">>)>>, <<stack[1].out>>)
    /\ UNCHANGED <<cwd, call, stack, opened>>
    /\ UNCHANGED tagVars
    /\ UNCHANGED regVars

NextInclude == LoadYaml \/ Include \/ Resume \/ Return

SpecInclude == InitInclude /\ [][NextInclude]_vars

(***************************************************************************)
(* C6..C10: the include resolver, under SpecInclude.                       *)
(***************************************************************************)
\* the handlers that have run
Ran == {i \in 1..Len(stack) : stack[i].phase # "called"}

\* the handlers that passed the checks on the node
Resolved == {i \in Ran : stack[i].node.kind = "scalar" /\ Len(stack[i].node.value) > 0}

TemplatePath == <<Root, Name("a", ""), Name("b", ""), Name("template", ".yaml")>>

DataFromTemplate == <<DotDot, Name("c", ""), Name("data", ".yaml")>>

DataPath == <<Root, Name("a", ""), Name("c", ""), Name("data", ".yaml")>>

\* C6 (as claimed): an absolute include path is used as-is; a relative one is
\* resolved against the directory of the including document when load was
\* given an origin path and against the working directory when not, the
\* resolved path being the path so reached: for the document
\* /a/b/template.yaml and the include ../c/data.yaml it is /a/c/data.yaml.
C6_ResolvedPath ==
    1 \in Resolved =>
        LET p == call.node.value
            o == call.file_name
        IN /\ isabs(p) => stack[1].file_path = p
           /\ (~isabs(p) /\ Len(o) > 0) => stack[1].file_path = normpath(SubSeq(o, 1, Len(o) - 1) \o p)
           /\ (~isabs(p) /\ Len(o) = 0) => Lookup(stack[1].file_path, cwd) = Lookup(normpath(cwd \o p), cwd)
           /\ (o = TemplatePath /\ p = DataFromTemplate) => stack[1].file_path = DataPath

\* C6 (amended): an absolute include path is used as-is; a relative one is
\* resolved against the directory of the origin path when load was given
\* one, and against the working directory when not. The resolved path is
\* the plain join of that directory and the include path, not normalised:
\* for the document /a/b/template.yaml and the include ../c/data.yaml it is
\* /a/b/../c/data.yaml, which names the file /a/c/data.yaml.
C6_JoinedPath ==
    1 \in Resolved =>
        LET p == call.node.value
            o == call.file_name
        IN /\ isabs(p) => stack[1].file_path = p
           /\ (~isabs(p) /\ Len(o) > 0) => stack[1].file_path = SubSeq(o, 1, Len(o) - 1) \o p
           /\ (~isabs(p) /\ Len(o) = 0) =>
                 /\ stack[1].file_path = p
                 /\ IsErr(stack[1].out) /\ stack[1].out.s = <<FileNotFound>> <=> Walk(cwd, p) \notin Directories \cup {f.path : f \in Files}
           /\ (o = TemplatePath /\ p = DataFromTemplate) =>
                 /\ stack[1].file_path = <<Root, Name("a", ""), Name("b", ""), DotDot, Name("c", ""), Name("data", ".yaml")>>
                 /\ Lookup(stack[1].file_path, cwd) = DataPath
                 /\ opened[1] = stack[1].file_path

C6_Witness ==
    /\ call.file_name = TemplatePath
    /\ call.node.value = DataFromTemplate
    /\ Len(stack) > 0
    /\ stack[1].phase = "done"
    /\ stack[1].file_path = join(DirB, DataFromTemplate)
    /\ ~IsErr(result) /\ result # Unset

\* C7 (as claimed): when a YAML file F is included and F has an include with a
\* relative path p, the nested load runs with F as its origin, so p names
\* the file it names from F's directory, at every depth.
C7_NestedOrigin ==
    \A i \in Resolved :
        (i > 1 /\ ~isabs(stack[i].node.value)) =>
            Lookup(stack[i].file_path, cwd)
                   = Lookup(SubSeq(stack[i - 1].file_path, 1, Len(stack[i - 1].file_path) - 1) \o stack[i].node.value, cwd)

\* the handlers that opened and read their file
ReadIn == {i \in Resolved : stack[i].branch # "none"}

TextRead(i) == FileAt(Lookup(stack[i].file_path, cwd)).text

\* C8: a file read whose suffix is .yaml or .yml in any case is parsed by the
\* loader; otherwise one whose suffix is .json in any case, or whose guessed
\* type is a JSON type (.geojson), is JSON-decoded; any other is returned as
\* its text unchanged; one branch applies to every file read.
C8_Dispatch ==
    \A i \in ReadIn :
        LET x == stack[i].file_path[Len(stack[i].file_path)].x
            yamlSuffixes == {".yaml", ".yml", ".YAML", ".YML", ".Yaml", ".Yml"}
            jsonSuffixes == {".json", ".JSON", ".Json", ".geojson"}
        IN /\ stack[i].branch \in {"yaml", "json", "text"}
           /\ x \in yamlSuffixes =>
                 /\ stack[i].branch = "yaml"
                 /\ (stack[i].phase = "done" /\ TextRead(i).yaml = "value") => stack[i].out = TextRead(i).val
                 /\ TextRead(i).yaml = "error" => IsErr(stack[i].out)
           /\ x \in jsonSuffixes =>
                 /\ stack[i].branch = "json"
                 /\ TextRead(i).json = "value" => stack[i].out = TextRead(i).val
                 /\ TextRead(i).json = "error" => IsErr(stack[i].out)
           /\ x \notin yamlSuffixes \cup jsonSuffixes =>
                 /\ stack[i].branch = "text"
                 /\ stack[i].out = PyStr(<<TextRead(i).id>>)

C8_Witness ==
    /\ Len(stack) = 1
    /\ stack[1].file_path = <<Name("kv", ".YML")>>
    /\ stack[1].branch = "yaml"
    /\ result = PyDict(<<PyStr(<<"x">>)>>, <<YamlText.val>>)

\* C9: an include node that is not a scalar fails with the shape error, an
\* empty scalar with the missing-argument error, a path that names nothing
\* with the file-not-found error, in that order; nothing is opened by a
\* handler that fails so, and the load then returns no tree.
C9_ArgumentErrors ==
    /\ \A i \in Ran :
          LET f == stack[i]
              failed == IsErr(f.out) /\ f.out.s \in {<<ExpectedScalar>>, <<MustSpecify>>, <<FileNotFound>>}
          IN /\ f.node.kind # "scalar" => IsErr(f.out) /\ f.out.s = <<ExpectedScalar>>
             /\ (f.node.kind = "scalar" /\ Len(f.node.value) = 0) => IsErr(f.out) /\ f.out.s = <<MustSpecify>>
             /\ (i \in Resolved /\ Lookup(f.file_path, cwd) = NoPath) =>
                   IsErr(f.out) /\ f.out.s = <<FileNotFound>> /\ f.out.keys = f.file_path
             /\ failed => Len(opened) = i - 1 /\ i = Len(stack)
             /\ ~failed => Len(opened) >= i /\ opened[i] = f.file_path
             /\ (failed /\ result # Unset) => IsErr(result)
    /\ Len(opened) <= Len(stack)

C9_Witness ==
    /\ Len(stack) = 2
    /\ IsErr(stack[2].out)
    /\ stack[2].out.s = <<FileNotFound>>
    /\ opened = <<stack[1].file_path>>
    /\ IsErr(result)

RECURSIVE TagsResolved(_, _)
\* v is what node n of a document stands for once its tags are resolved: a
\* node with a CloudFormation tag is an object of that tag holding the payload
\* of the node's shape, a to-string node is a str, and so below every collection
TagsResolved(n, v) ==
    LET below(w) ==
            IF n.kind = "scalar" THEN w = PyStr(n.value)
            ELSE IF n.kind = "sequence"
            THEN /\ w.kind = "list"
                 /\ Len(w.items) = Len(n.items)
                 /\ \A i \in 1..Len(n.items) : TagsResolved(n.items[i], w.items[i])
            ELSE /\ w.kind = "dict"
                 /\ Len(w.items) = Len(n.items)
                 /\ \A i \in 1..Len(n.items) : TagsResolved(n.items[i], w.items[i])
    IN IF n.tag = ToStringTag THEN v.kind = "str"
       ELSE IF n.tag \in RegisteredTags THEN v.kind = "obj" /\ v.tag = n.tag /\ below(Data(v))
       ELSE IF n.kind = "scalar" THEN v.kind \in {"str", "int", "bool", "null"}
       ELSE below(v)

RECURSIVE Merged(_, _)
\* the value i includes down in the merged tree v
Merged(v, i) == IF i = 0 THEN v ELSE Merged(v.items[1], i - 1)

\* C11: a YAML file included at any depth is loaded by the loader of the
\* including document: each of its CloudFormation tags is a Tagged Value of
\* that tag in the merged tree, each of its to-string tags is the str made of
\* its value, and its include tag is run by a handler of its own whose result
\* takes the tag's place.
C11_NestedTags ==
    \A i \in ReadIn :
        LET f == stack[i]
            text == TextRead(i)
        IN (f.phase = "done" /\ f.branch = "yaml") =>
              /\ text.yaml = "document" =>
                    /\ ~IsErr(f.out)
                    /\ TagsResolved(text.doc, f.out)
                    /\ result # Unset => ~IsErr(result) /\ Merged(result, i) = f.out
              /\ text.yaml = "include" =>
                    \/ i = RecursionLimit /\ f.out = wrap(f.file_path, Raised("RecursionError"))
                    \/ /\ i < Len(stack)
                       /\ stack[i + 1].node = text.inc
                       /\ stack[i + 1].phase = "done"
                       /\ ~IsErr(stack[i + 1].out) => f.out = PyDict(<<PyStr(<<"y">>)>>, <<stack[i + 1].out>>)

\* a load through three files, the innermost with tags, has returned its tree
C11_Witness ==
    /\ Len(stack) = 3
    /\ result # Unset
    /\ ~IsErr(result)
    /\ TextRead(3).yaml = "document"
    /\ Merged(result, 3).items[1] = Obj("!Ref", PyStr(<<"a">>))
    /\ Merged(result, 3).items[3].kind = "str"

(***************************************************************************)
(* The to-string tag as a state machine: load_yaml is called on a document *)
(*   x: !CFNToolsToString [value, options, more]                           *)
(* whose value and options are drawn from the nodes below, or on one whose *)
(* tagged node is no sequence or an empty one.                             *)
(***************************************************************************)
\* a scalar written in quotes
Quoted(value) == ScalarNode("", value, "'")

Map1(k, v) == MappingNode("", <<Plain(k)>>, <<v>>)

Map2(k1, v1, k2, v2) == MappingNode("", <<Plain(k1), Plain(k2)>>, <<v1, v2>>)

List(items) == SequenceNode("", items)

\* the values without a tag: strings, numbers, booleans, null, collections
PlainValues ==
    { Plain(<<"a">>), Quoted(<<"a", "\n", "b", "\n">>), Quoted(<<"4", "2">>),
      Plain(<<"4", "2">>), Plain(TrueText), Plain(FalseText), Plain(<<"~">>),
      Map1(<<"k">>, Plain(<<"v">>)),
      Map2(<<"k">>, Plain(<<"v">>), <<"j">>, List(<<Plain(<<"a">>), Map1(<<"b">>, Plain(<<"1">>)), List(<<>>)>>)),
      List(<<Plain(<<"a">>), Plain(TrueText), Plain(<<"~">>)>>),
      List(<<>>), MappingNode("", <<>>, <<>>) }

\* collections whose strings hold a newline or a quote, which yaml.dump writes
\* in ways YamlScalar does not model: converted to JSON only
JsonOnlyValues ==
    { Map1(<<"k">>, Quoted(<<"a", "\n", "\"", "\\">>)),
      Map1(<<"k">>, SequenceNode(ToStringTag, <<Map1(<<"k">>, Plain(<<"v">>))>>)) }

\* values with CloudFormation tags: below a collection, in the payload of
\* another tag, and as the value itself
TaggedValues ==
    { Map1(<<"a">>, ScalarNode("!Ref", <<"r">>, "None")),
      List(<<List(<<ScalarNode("!Sub", <<"s">>, "None")>>)>>),
      Map1(<<"a">>, SequenceNode("!Join", <<Quoted(<<>>), List(<<ScalarNode("!Ref", <<"r">>, "None")>>)>>)),
      List(<<MappingNode("!Transform", <<Plain(<<"k">>)>>, <<ScalarNode("!Ref", <<"r">>, "None")>>)>>),
      ScalarNode("!Ref", <<"r">>, "None") }

JsonOptions ==
    { Map1(<<"ConvertTo">>, Plain(<<"JSONString">>)),
      Map1(<<"OneLine">>, Plain(TrueText)),
      Map1(<<"OneLine">>, Plain(FalseText)),
      Map2(<<"ConvertTo">>, Plain(<<"JSONString">>), <<"OneLine">>, Plain(TrueText)),
      Map1(<<"Other">>, Plain(<<"x">>)),
      MappingNode("", <<>>, <<>>) }

YamlOptions ==
    { Map1(<<"ConvertTo">>, Plain(<<"YAMLString">>)),
      Map2(<<"ConvertTo">>, Plain(<<"YAMLString">>), <<"OneLine">>, Plain(TrueText)),
      Map2(<<"OneLine">>, Plain(FalseText), <<"ConvertTo">>, Plain(<<"YAMLString">>)) }

BadOptions ==
    { Plain(<<"a">>), Plain(<<"~">>), List(<<>>),
      MappingNode("!Transform", <<Plain(<<"ConvertTo">>)>>, <<Plain(<<"YAMLString">>)>>),
      Map1(<<"ConvertTo">>, Plain(<<"XML">>)),
      Map1(<<"ConvertTo">>, Plain(<<"jsonstring">>)),
      Map1(<<"ConvertTo">>, Plain(<<"~">>)),
      Map1(<<"OneLine">>, Quoted(<<"yes">>)),
      Map1(<<"OneLine">>, Plain(<<"1">>)),
      Map1(<<"OneLine">>, Plain(<<"~">>)),
      Map2(<<"OneLine">>, Plain(<<"1">>), <<"ConvertTo">>, Plain(<<"XML">>)),
      Map2(<<"ConvertTo">>, Plain(<<"YAMLString">>), <<"OneLine">>, Plain(<<"1">>)) }

ToStringNodes ==
    { SequenceNode(ToStringTag, <<v>>) : v \in PlainValues \cup JsonOnlyValues \cup TaggedValues }
    \cup { SequenceNode(ToStringTag, <<v, o>>) :
              v \in PlainValues \cup JsonOnlyValues \cup TaggedValues, o \in JsonOptions \cup BadOptions }
    \cup { SequenceNode(ToStringTag, <<v, o>>) : v \in PlainValues \cup TaggedValues, o \in YamlOptions }
    \cup { SequenceNode(ToStringTag, <<v, o, Plain(<<"more">>)>>) :
              v \in {Plain(<<"a">>), Map1(<<"k">>, Plain(<<"v">>))},
              o \in {Map1(<<"OneLine">>, Plain(TrueText)), Map1(<<"ConvertTo">>, Plain(<<"XML">>))} }
    \cup { SequenceNode(ToStringTag, <<>>),
           ScalarNode(ToStringTag, <<"a">>, "None"),
           ScalarNode(ToStringTag, <<>>, "None"),
           MappingNode(ToStringTag, <<Plain(<<"k">>)>>, <<Plain(<<"v">>)>>),
           MappingNode(ToStringTag, <<Plain(<<"=">>)>>, <<Plain(<<"v">>)>>) }

\* load_yaml(stream): the document is constructed by a CloudFormation-
\* ProcessingLoader
processing_load_yaml(stream) == yaml_load(stream, CloudFormationProcessingLoader)

InitToString ==
    /\ TagIdle
    /\ cwd = DirC
    /\ call \in [node : ToStringNodes, file_name : {<<>>}]
    /\ stack = <<>>
    /\ result = Unset
    /\ opened = <<>>
    /\ Imported

\* load_yaml returns the document, or the handler's error leaves it
LoadToString ==
    /\ result = Unset
    /\ result' = processing_load_yaml(Map1(<<"x">>, call.node))
    /\ UNCHANGED <<cwd, call, stack, opened>>
    /\ UNCHANGED tagVars
    /\ UNCHANGED regVars

NextToString == LoadToString

SpecToString == InitToString /\ [][NextToString]_vars

(***************************************************************************)
(* C12..C14: the to-string tag, under SpecToString.                        *)
(***************************************************************************)
\* load_yaml has returned or raised
Finished == result # Unset

\* the elements of the tagged sequence as the loader constructs them
Args == processing_load_yaml(SequenceNode("", call.node.items)).items

\* the argument list is well formed
WellFormed ==
    /\ call.node.kind = "sequence"
    /\ Len(Args) > 0
    /\ Len(Args) > 1 =>
          /\ Args[2].kind = "dict"
          /\ In(ConvertTo, Args[2]) => Get(Args[2], ConvertTo) \in {YAMLString, JSONString}
          /\ In(OneLine, Args[2]) => Get(Args[2], OneLine) \in {PyBool(TrueText), PyBool(FalseText)}

YamlMode == Len(Args) > 1 /\ In(ConvertTo, Args[2]) /\ Get(Args[2], ConvertTo) = YAMLString

OneLineAsked == Len(Args) > 1 /\ In(OneLine, Args[2]) /\ Get(Args[2], OneLine) = PyBool(TrueText)

RECURSIVE HasTag(_)
\* a Tagged Value is found in v
HasTag(v) == v.kind = "obj" \/ \E i \in 1..Len(v.items) : HasTag(v.items[i])

\* the text load_yaml put at x
Made == result.items[1]

\* C12: options absent mean JSONString and OneLine false. A str is returned
\* as it is, with OneLine true each of its newlines a space; an int as its
\* digits, a bool as True or False; a map or sequence (without Tagged Values)
\* as json.dumps with indent 2, with OneLine true as json.dumps with the
\* separators "," and ":" and not one space or newline outside its strings, in
\* YAML mode as the block-style dump without its last newline.
C12_ResultFormat ==
    (Finished /\ WellFormed /\ ~HasTag(Args[1])) =>
        LET value == Args[1]
        IN /\ result.kind = "dict"
           /\ Made.kind = "str"
           /\ (value.kind = "str" /\ ~OneLineAsked) => Made = value
           /\ (value.kind = "str" /\ OneLineAsked) =>
                 /\ Len(Made.s) = Len(value.s)
                 /\ \A i \in 1..Len(value.s) : Made.s[i] = (IF value.s[i] = "\n" THEN " " ELSE value.s[i])
           /\ value.kind = "int" => Made.s = value.s
           /\ value.kind = "bool" =>
                 Made.s = (IF value.s = TrueText THEN <<"T", "r", "u", "e">> ELSE <<"F", "a", "l", "s", "e">>)
           /\ (value.kind \in {"dict", "list"} /\ ~YamlMode /\ ~OneLineAsked) => Made.s = JsonOf(value, FALSE, 0)
           /\ (value.kind \in {"dict", "list"} /\ ~YamlMode /\ OneLineAsked) =>
                 /\ Made.s = JsonOf(value, TRUE, 0)
                 /\ value = PyDict(<<PyStr(<<"k">>)>>, <<PyStr(<<"v">>)>>) =>
                       Made.s = <<"{", "\"", "k", "\"", ":", "\"", "v", "\"", "}">>
           /\ (value.kind \in {"dict", "list"} /\ YamlMode) =>
                 /\ Made.s \o <<"\n">> = yaml_dump(value)
                 /\ value = PyDict(<<PyStr(<<"k">>)>>, <<PyStr(<<"v">>)>>) => Made.s = <<"k", ":", " ", "v">>
           /\ (value = PyDict(<<PyStr(<<"k">>)>>, <<PyStr(<<"v">>)>>) /\ Len(Args) = 1) =>
                 Made.s = <<"{", "\n", " ", " ", "\"", "k", "\"", ":", " ", "\"", "v", "\"", "\n", "}">>

\* a map of two keys asked as YAML on one line is written on its four lines
C12_Witness ==
    /\ Finished
    /\ WellFormed
    /\ YamlMode
    /\ OneLineAsked
    /\ Args[1].kind = "dict"
    /\ Len(Args[1].keys) = 2
    /\ Made.kind = "str"
    /\ Cardinality({i \in 1..Len(Made.s) : Made.s[i] = "\n"}) = 4

\* the check of the claim's order that the argument list fails first, or ""
Fault ==
    IF call.node.kind # "sequence" THEN ExpectedSequence
    ELSE IF Len(Args) = 0 THEN RequiresParameter
    ELSE IF Len(Args) = 1 THEN ""
    ELSE IF Args[2].kind # "dict" THEN OptionsMustBeMapping
    ELSE IF In(ConvertTo, Args[2]) /\ Get(Args[2], ConvertTo) \notin {YAMLString, JSONString} THEN ConvertToMustBe
    ELSE IF In(OneLine, Args[2]) /\ Get(Args[2], OneLine).kind # "bool" THEN OneLineMustBe
    ELSE ""

\* C13: a payload that is no sequence, an empty sequence, a second element
\* that is no mapping, a ConvertTo that is neither literal and a OneLine that
\* is no bool each make the load raise, the first of them in this order
\* deciding the error, whatever the value is: no tree is returned.
C13_Rejects ==
    (Finished /\ Fault # "") => result = ToStringError(Fault)

\* a str value with a OneLine that is no bool is rejected
C13_Witness ==
    /\ Finished
    /\ call.node.kind = "sequence"
    /\ Len(Args) > 1
    /\ Args[1].kind = "str"
    /\ Fault = OneLineMustBe
    /\ result = ToStringError(OneLineMustBe)

RECURSIVE Rewritten(_)
\* v with each Tagged Value in it, at any depth, the one-key mapping of its
\* tag to its rewritten payload
Rewritten(v) ==
    IF v.kind = "obj" THEN PyDict(<<PyStr(<<"!", TagName(v.tag)>>)>>, <<Rewritten(Data(v))>>)
    ELSE IF v.kind = "dict" THEN PyDict(v.keys, [i \in 1..Len(v.items) |-> Rewritten(v.items[i])])
    ELSE IF v.kind = "list" THEN PyList([i \in 1..Len(v.items) |-> Rewritten(v.items[i])])
    ELSE v

\* C14: a map or sequence is stringified with every Tagged Value in it, at
\* any depth, rewritten to the one-key mapping of its tag: the load succeeds
\* and the text is the plain JSON or YAML of the rewritten value.
C14_TagsRewritten ==
    (Finished /\ WellFormed /\ Args[1].kind \in {"dict", "list"}) =>
        /\ result.kind = "dict"
        /\ Made.kind = "str"
        /\ ~YamlMode => Made.s = JsonOf(Rewritten(Args[1]), OneLineAsked, 0)
        /\ YamlMode => Made.s \o <<"\n">> = yaml_dump(Rewritten(Args[1]))

(***************************************************************************)
(* The registry as a state machine: after import, inject is called again   *)
(* with any of the loader and the dumper, objects are loaded with the      *)
(* constructors bound at that time, and dumped with the representers.      *)
(***************************************************************************)
MaxInjects == 3

MaxLoaded == 2

\* CloudFormationObject.__eq__
eq(self, other) == other.cls = self.cls /\ Data(other.obj) = Data(self.obj)

InitRegistry ==
    /\ TagIdle
    /\ IncludeIdle
    /\ Imported

\* inject(*args), called by a user of the module
Inject ==
    /\ injects < MaxInjects
    /\ \E args \in SUBSET {CloudFormationLoader, CloudFormationDumper} :
          LET reg == inject(Registry(classes, yaml_constructors, yaml_representers), args, injects + 1)
          IN /\ classes' = reg.classes
             /\ yaml_constructors' = reg.yaml_constructors
             /\ yaml_representers' = reg.yaml_representers
    /\ injects' = injects + 1
    /\ result' = PyNone
    /\ UNCHANGED <<loaded, kwargs>>
    /\ UNCHANGED <<cwd, call, stack, opened>>
    /\ UNCHANGED tagVars

\* load_yaml of a one-node document: the constructor bound to the tag makes
\* an object of its class
LoadObject ==
    /\ Len(loaded) < MaxLoaded
    /\ \E tag \in {"!Ref", "!Sub"}, data \in {<<"a">>, <<"b">>} :
          LET cls == yaml_constructors[tag]
          IN loaded' = Append(loaded, [cls |-> cls, obj |-> construct(cls, ScalarNode(tag, data, "None"))])
    /\ UNCHANGED <<classes, yaml_constructors, yaml_representers, injects, kwargs>>
    /\ UNCHANGED incVars
    /\ UNCHANGED tagVars

\* dump_yaml of a loaded object: its class must have a representer
DumpObject ==
    /\ \E i \in 1..Len(loaded) :
          result' = IF loaded[i].cls \in yaml_representers
                    THEN PyStr(<<loaded[i].obj.tag, " ", "'">> \o Data(loaded[i].obj).s \o <<"'", "\n">>)
                    ELSE Raised("RepresenterError")
    /\ UNCHANGED regVars
    /\ UNCHANGED <<cwd, call, stack, opened>>
    /\ UNCHANGED tagVars

NextRegistry == Inject \/ LoadObject \/ DumpObject

SpecRegistry == InitRegistry /\ [][NextRegistry]_vars

(***************************************************************************)
(* C15..C17: the registry, under SpecRegistry.                             *)
(***************************************************************************)
\* the vocabulary as the claim lists it: tag literal without "!", shape, name
Vocabulary ==
    { <<"Ref", "scalar", "Ref">>, <<"Condition", "scalar", "Condition">>,
      <<"And", "sequence", "Fn::And">>, <<"Equals", "sequence", "Fn::Equals">>,
      <<"FindInMap", "sequence", "Fn::FindInMap">>, <<"If", "sequence", "Fn::If">>,
      <<"Join", "sequence", "Fn::Join">>, <<"Not", "sequence", "Fn::Not">>,
      <<"Or", "sequence", "Fn::Or">>, <<"Select", "sequence", "Fn::Select">>,
      <<"Split", "sequence", "Fn::Split">>, <<"Cidr", "sequence", "Fn::Cidr">>,
      <<"GetAtt", "sequence_scalar", "Fn::GetAtt">>, <<"Sub", "sequence_scalar", "Fn::Sub">>,
      <<"Base64", "scalar", "Fn::Base64">>, <<"GetAZs", "scalar", "Fn::GetAZs">>,
      <<"ImportValue", "scalar", "Fn::ImportValue">>, <<"Transform", "mapping", "Fn::Transform">> }

Descriptor(cls) == <<cls.tag, cls.type, cls.name>>

\* C15: the registry holds the 18 descriptors of the vocabulary and no
\* other, each tag literal "!" and its name, once, with its shape and its
\* semantic name; the loader has a constructor for exactly these tags, bound
\* to a class of that descriptor.
C15_Vocabulary ==
    LET expected == { <<"!" \o v[1], v[2], v[3]>> : v \in Vocabulary }
    IN /\ Len(classes) = 18
       /\ Cardinality(Vocabulary) = 18
       /\ {Descriptor(classes[i]) : i \in 1..Len(classes)} = expected
       /\ \A i, j \in 1..Len(classes) : classes[i].tag = classes[j].tag => i = j
       /\ DOMAIN yaml_constructors = {d[1] : d \in expected}
       /\ \A tag \in DOMAIN yaml_constructors :
             yaml_constructors[tag].tag = tag /\ Descriptor(yaml_constructors[tag]) \in expected

\* a !Sub was looked up in the registry and loaded
C15_Witness ==
    /\ Len(loaded) > 0
    /\ loaded[1].cls.tag = "!Sub"
    /\ loaded[1].cls.type = SEQUENCE_OR_SCALAR
    /\ loaded[1].obj = Obj("!Sub", PyStr(<<"a">>))

\* C16: a registration for a tag literal that is registered fails and changes
\* nothing: the class and the constructor of every tag are the ones registered
\* first, and a call that registers them again raises.
C16_FirstKept ==
    /\ \A i \in 1..Len(classes) : classes[i].id = 1
    /\ \A tag \in DOMAIN yaml_constructors : yaml_constructors[tag].id = 1
    /\ injects > 1 => IsErr(result)

\* C17: the classes, the constructor and the representer of every tag are
\* those of the import in every state, whatever was called; objects of one tag
\* loaded at any two times have the same class and are equal when their data
\* are equal.
C17_ReadOnly ==
    LET reg == inject(NoRegistry, {CloudFormationLoader, CloudFormationDumper}, 1)
    IN /\ classes = reg.classes
       /\ yaml_constructors = reg.yaml_constructors
       /\ yaml_representers = reg.yaml_representers
       /\ \A i, j \in 1..Len(loaded) :
             loaded[i].obj.tag = loaded[j].obj.tag =>
                /\ loaded[i].cls = loaded[j].cls
                /\ Data(loaded[i].obj) = Data(loaded[j].obj) => eq(loaded[i], loaded[j])

(***************************************************************************)
(* dump_yaml with keyword arguments, as a state machine: a tree without    *)
(* tags is dumped with any of default_flow_style, sort_keys and            *)
(* allow_unicode given or left out. A given value is "True", "False" or    *)
(* "None".                                                                 *)
(***************************************************************************)
\* a dump_yaml whose allow_unicode, when not given, is yaml.dump's own default
dump_yaml_kwargs_ascii(data, kw) ==
    LET dump_kwargs == [k \in {"default_flow_style", "sort_keys"} \cup DOMAIN kw |->
                           IF k \in DOMAIN kw THEN kw[k] ELSE "False"]
        get(k, default) == IF k \in DOMAIN dump_kwargs THEN dump_kwargs[k] ELSE default
    IN yaml_dump_with(data, get("default_flow_style", "False"), get("sort_keys", "False") = "True",
                      get("allow_unicode", "False") = "True")

\* dump_yaml(data, **kwargs): the text returned
dump_yaml_kwargs(data, kw) ==
    LET dump_kwargs == [k \in {"default_flow_style", "sort_keys"} \cup DOMAIN kw |->
                           IF k \in DOMAIN kw THEN kw[k] ELSE "False"]
        get(k, default) == IF k \in DOMAIN dump_kwargs THEN dump_kwargs[k] ELSE default
    IN yaml_dump_with(data, get("default_flow_style", "False"), get("sort_keys", "False") = "True",
                      get("allow_unicode", "True") = "True")

Str1(c) == PyStr(<<c>>)

\* {b: 1, a: [x, y]}  {c: {b: é, a: ''}, a: []}  [{b: x, a: null}, [z]]  {k: é, B: true}
DumpData ==
    { PyDict(<<Str1("b"), Str1("a")>>, <<PyInt(<<"1">>), PyList(<<Str1("x"), Str1("y")>>)>>),
      PyDict(<<Str1("c"), Str1("a")>>,
             <<PyDict(<<Str1("b"), Str1("a")>>, <<Str1(EAcute), PyStr(<<>>)>>), PyList(<<>>)>>),
      PyList(<<PyDict(<<Str1("b"), Str1("a")>>, <<Str1("x"), PyNone>>), PyList(<<Str1("z")>>)>>),
      PyDict(<<Str1("k"), Str1("B")>>, <<Str1(EAcute), PyBool(TrueText)>>) }

Kwargs ==
    { kw \in UNION { [keys -> {"True", "False", "None"}] :
                        keys \in SUBSET {"default_flow_style", "sort_keys", "allow_unicode"} } :
        \A k \in DOMAIN kw : kw[k] = "None" => k = "default_flow_style" }

InitDump ==
    /\ doc = NoNode
    /\ pc = "loaded"
    /\ tree \in DumpData
    /\ dumped = NoNode
    /\ reloaded = Unset
    /\ json = NoCall
    /\ IncludeIdle
    /\ Imported

\* dump_yaml(tree, **kw) is called and returns
DumpYaml ==
    /\ result = Unset
    /\ \E kw \in Kwargs :
          /\ kwargs' = kw
          /\ result' = PyStr(dump_yaml_kwargs(tree, kw))
    /\ UNCHANGED <<classes, yaml_constructors, yaml_representers, injects, loaded>>
    /\ UNCHANGED <<cwd, call, stack, opened>>
    /\ UNCHANGED tagVars

NextDump == DumpYaml

SpecDump == InitDump /\ [][NextDump]_vars

(***************************************************************************)
(* C18: dump_yaml's keyword arguments, under SpecDump.                     *)
(***************************************************************************)
\* the value dump_yaml is to use for an option: the one given, or the default
Effective(option, default) == IF option \in DOMAIN kwargs THEN kwargs[option] ELSE default

SpecIncludeFair == InitInclude /\ [][NextInclude]_vars /\ WF_vars(NextInclude)

C20_PlainIdentifiers ==
    dumped # NoNode =>
        \A p \in Paths(tree) :
            LET obj == At(tree, p)
                node == NodeAt(dumped, p)
            IN obj.kind = "obj" =>
                  /\ node.tag = obj.tag
                  /\ Data(obj).kind = "list" => node.kind = "sequence"
                  /\ Data(obj).kind = "dict" => node.kind = "mapping"
                  /\ Data(obj).kind \notin {"list", "dict"} => node.kind = "scalar"
                  /\ (Data(obj).kind = "str" /\ IdentifierLike(Data(obj).s)) => node.style = "None"

(***************************************************************************)
(* dump_yaml called with an option of yaml.dump that is none of the three  *)
(* it names: indent, given as 2 (the emitter's own) or 4, or left out.     *)
(***************************************************************************)
KwargsIndent ==
    Kwargs \cup { [k \in DOMAIN kw \cup {"indent"} |-> IF k = "indent" THEN n ELSE kw[k]] :
                     kw \in Kwargs, n \in {2, 4} }

\* dump_yaml(tree, **kw) is called and returns
DumpYamlOptions ==
    /\ result = Unset
    /\ \E kw \in KwargsIndent :
          /\ kwargs' = kw
          /\ result' = PyStr(dump_yaml_kwargs(tree, kw))
    /\ UNCHANGED <<classes, yaml_constructors, yaml_representers, injects, loaded>>
    /\ UNCHANGED <<cwd, call, stack, opened>>
    /\ UNCHANGED tagVars

NextDumpOptions == DumpYamlOptions

SpecDumpOptions == InitDump /\ [][NextDumpOptions]_vars

(***************************************************************************)
(* C21: the options dump_yaml passes on, under SpecDumpOptions.            *)
(***************************************************************************)
\* C21 (as claimed): the text dump_yaml returns is the text yaml.dump writes
\* when it is given every option of the call, indent included: an option
\* other than the three dump_yaml names reaches the emitter.
C21_OptionsPassedOn ==
    Finished =>
        result.s = yaml_dump_indent(tree, Effective("default_flow_style", "False"),
                                    Effective("sort_keys", "False") = "True",
                                    Effective("allow_unicode", "True") = "True",
                                    IF "indent" \in DOMAIN kwargs THEN kwargs["indent"] ELSE 2)

(***************************************************************************)
(* C22: objects below the elements of a payload, under Spec.               *)
(***************************************************************************)
RECURSIVE NoTagged(_)
\* v holds no object at any depth
NoTagged(v) == v.kind # "obj" /\ \A i \in 1..Len(v.items) : NoTagged(v.items[i])

RECURSIVE Encodes(_, _)
\* out is v with every object in it replaced by its one-key dict
Encodes(out, v) ==
    IF v.kind = "obj"
    THEN /\ out.kind = "dict"
         /\ Len(out.keys) = 1
         /\ IF Data(v).kind = "str" /\ (v.tag = "!GetAtt" \/ (v.tag = "!Ref" /\ HasDot(Data(v).s)))
            THEN out.keys[1] = PyStr(<<"Fn::GetAtt">>) /\ out.items[1] = SplitDots(Data(v))
            ELSE out.keys[1] = PyStr(<<ClassOf(v.tag).name>>) /\ Encodes(out.items[1], Data(v))
    ELSE IF v.kind \in {"list", "dict"}
    THEN /\ out.kind = v.kind
         /\ out.keys = v.keys
         /\ Len(out.items) = Len(v.items)
         /\ \A i \in 1..Len(v.items) : Encodes(out.items[i], v.items[i])
    ELSE out = v

RECURSIVE IncludePaths(_)
\* the places of the include nodes of a node graph, in document order
IncludePaths(node) ==
    IF node.kind = "constructed" THEN <<>>
    ELSE IF node.tag = IncludeFileTag THEN << <<>> >>
    ELSE Concat([i \in 1..Len(node.items) |->
                    [j \in 1..Len(IncludePaths(node.items[i])) |-> <<i>> \o IncludePaths(node.items[i])[j]]])

RECURSIVE Replace(_, _, _)
\* the node graph with n at place p
Replace(node, p, n) ==
    IF p = <<>> THEN n ELSE [node EXCEPT !.items[p[1]] = Replace(node.items[p[1]], Tail(p), n)]

RECURSIVE include_file(_, _, _, _)
\* the handler after its own step r: it has returned or raised, or it goes
\* on with what the nested load of the included file gives
include_file_nested(r, wd, depth) ==
    [file_path |-> r.file_path, branch |-> r.branch, opens |-> r.opens,
     out |-> IF r.phase = "done" THEN r.out
             ELSE after_nested_load(r.file_path, include_file(UnicodeString, r.nested, wd, depth + 1).out)]

\* the handler run to its end, the nested loads of the included file with it:
\* the path it made, the branch it took, whether it opened the file, and
\* what it returned or raised
include_file(name, node, wd, depth) ==
    include_file_nested(construct_cfntools_include_file(name, node, wd, depth), wd, depth)

Inc(name, ext) == IncludeNode(<<Name(name, ext)>>)

\* files that are read (JSON, text, YAML, YAML with an include, YAML with
\* tags) and files that are not (missing, broken)
Included ==
    { Inc("x", ".json"), Inc("leaf", ".txt"), Inc("kv", ".YML"), Inc("outer", ".yaml"),
      Inc("tags", ".yaml"), Inc("deep", ".yaml"), Inc("nope", ".txt"), Inc("bad", ".yaml") }

\* the value element: an include, or a map or sequence with includes in it
IncludingValues ==
    Included
    \cup { Map2(<<"k">>, f, <<"m">>, List(<<g>>)) : f, g \in Included }
    \cup { List(<<f, Map1(<<"k">>, Map1(<<"j">>, g)), Plain(<<"a">>)>>) : f, g \in Included }

IncludingNodes ==
    { SequenceNode(ToStringTag, <<v>>) : v \in IncludingValues }
    \cup { SequenceNode(ToStringTag, <<v, o>>) :
              v \in IncludingValues,
              o \in { Map1(<<"OneLine">>, Plain(TrueText)),
                      Map1(<<"ConvertTo">>, Plain(<<"YAMLString">>)),
                      Map1(<<"ConvertTo">>, Plain(<<"XML">>)) } }

InitIncluding ==
    /\ cwd = DirC
    /\ call \in [node : IncludingNodes, file_name : {<<>>, Append(DirC, Name("template", ".yaml"))}]
    /\ doc = call.node
    /\ pc = "constructing"
    /\ tree = Unset
    /\ dumped = NoNode
    /\ reloaded = Unset
    /\ json = NoCall
    /\ stack = <<>>
    /\ result = Unset
    /\ opened = <<>>
    /\ Imported

\* construct_sequence reaches the next include node and calls its handler
CallInclude ==
    /\ pc = "constructing"
    /\ IF stack = <<>> THEN TRUE ELSE stack[Len(stack)].phase = "done"
    /\ IncludePaths(doc) # <<>>
    /\ stack' = Append(stack, Frame(IF Len(call.file_name) > 0 THEN call.file_name ELSE UnicodeString,
                                     NodeAt(doc, IncludePaths(doc)[1])))
    /\ UNCHANGED <<cwd, call, result, opened>>
    /\ UNCHANGED tagVars
    /\ UNCHANGED regVars

\* the handler returns: the node is constructed
IncludeReturns ==
    /\ pc = "constructing"
    /\ stack # <<>>
    /\ stack[Len(stack)].phase = "called"
    /\ \E f \in {stack[Len(stack)]} :
       \E r \in {include_file(f.name, f.node, cwd, 1)} :
          /\ ~IsErr(r.out)
          /\ stack' = [stack EXCEPT ![Len(stack)] =
                          [f EXCEPT !.file_path = r.file_path, !.phase = "done", !.branch = r.branch, !.out = r.out]]
          /\ opened' = Append(opened, r.file_path)
          /\ doc' = Replace(doc, IncludePaths(doc)[1], ConstructedNode(r.out))
    /\ UNCHANGED <<cwd, call, result>>
    /\ UNCHANGED <<pc, tree, dumped, reloaded, json>>
    /\ UNCHANGED regVars

\* the handler raises: the error leaves construct_sequence, the to-string
\* handler and load_yaml
IncludeRaises ==
    /\ pc = "constructing"
    /\ stack # <<>>
    /\ stack[Len(stack)].phase = "called"
    /\ \E f \in {stack[Len(stack)]} :
       \E r \in {include_file(f.name, f.node, cwd, 1)} :
          /\ IsErr(r.out)
          /\ stack' = [stack EXCEPT ![Len(stack)] =
                          [f EXCEPT !.file_path = r.file_path, !.phase = "done", !.branch = r.branch, !.out = r.out]]
          /\ opened' = IF r.opens THEN Append(opened, r.file_path) ELSE opened
          /\ result' = r.out
          /\ pc' = "failed"
    /\ UNCHANGED <<cwd, call>>
    /\ UNCHANGED <<doc, tree, dumped, reloaded, json>>
    /\ UNCHANGED regVars

\* nothing below the to-string node is left to construct: the handler goes
\* on after construct_sequence, and load_yaml returns or raises
Stringify ==
    /\ pc = "constructing"
    /\ IF stack = <<>> THEN TRUE ELSE stack[Len(stack)].phase = "done"
    /\ IncludePaths(doc) = <<>>
    /\ result' = processing_load_yaml(Map1(<<"x">>, doc))
    /\ pc' = "constructed"
    /\ UNCHANGED <<cwd, call, stack, opened>>
    /\ UNCHANGED <<doc, tree, dumped, reloaded, json>>
    /\ UNCHANGED regVars

NextIncluding == CallInclude \/ IncludeReturns \/ IncludeRaises \/ Stringify

SpecIncluding == InitIncluding /\ [][NextIncluding]_vars


(***************************************************************************)
(* C23: includes below a to-string tag, under SpecIncluding.               *)
(***************************************************************************)
RECURSIVE Filled(_, _)
\* the value that node, found at place p of the document, stands for once
\* every include node has the value its handler returned
Filled(node, p) ==
    IF node.tag = IncludeFileTag
    THEN stack[CHOOSE k \in 1..Len(IncludePaths(call.node)) : IncludePaths(call.node)[k] = p].out
    ELSE IF node.kind = "sequence"
    THEN PyList([i \in 1..Len(node.items) |-> Filled(node.items[i], Append(p, i))])
    ELSE IF node.kind = "mapping"
    THEN PyDict([i \in 1..Len(node.keys) |-> PyStr(node.keys[i].value)],
                [i \in 1..Len(node.items) |-> Filled(node.items[i], Append(p, i))])
    ELSE PyStr(node.value)

\* the options the document gives
Asked(k, v) == Len(call.node.items) > 1 /\ call.node.items[2] = Map1(<<k>>, Plain(v))

\* C23: the include handlers below a to-string node are called in the order
\* of the document, each after the one before it has returned; when one
\* raises, no other is called and the load raises its error; the text is made
\* only when every one has returned, and it is the serialization of the value
\* element with the returned contents in the places of the include nodes.
C23_DepthFirst ==
    LET paths == IncludePaths(call.node)
    IN /\ Len(stack) <= Len(paths)
       /\ \A k \in 1..Len(stack) : stack[k].node = NodeAt(call.node, paths[k])
       /\ \A k \in 1..(Len(stack) - 1) : stack[k].phase = "done" /\ ~IsErr(stack[k].out)
       /\ ~Finished => pc = "constructing"
       /\ Finished =>
             /\ stack[Len(stack)].phase = "done"
             /\ IF IsErr(stack[Len(stack)].out)
                THEN pc = "failed" /\ result = stack[Len(stack)].out
                ELSE /\ pc = "constructed"
                     /\ Len(stack) = Len(paths)
                     /\ IF Asked("ConvertTo", <<"XML">>)
                        THEN result = ToStringError(ConvertToMustBe)
                        ELSE /\ ~IsErr(result)
                             /\ Made = convert(Filled(call.node.items[1], <<1>>),
                                               IF Asked("ConvertTo", <<"YAMLString">>) THEN YAMLString ELSE JSONString,
                                               Asked("OneLine", TrueText))

\* a text has been made of a map with two includes in it, one of them of a
\* YAML file that includes another
C23_Witness ==
    /\ Finished
    /\ ~IsErr(result)
    /\ call.node.items[1].kind = "mapping"
    /\ Len(stack) = 2
    /\ stack[1].node = Inc("deep", ".yaml")
    /\ stack[1].out.kind = "dict"
    /\ stack[2].node = Inc("x", ".json")
    /\ opened = <<stack[1].file_path, stack[2].file_path>>
    /\ Made.kind = "str"
    /\ Asked("OneLine", TrueText)


(***************************************************************************)
(* C24: OneLine, under SpecToString.                                       *)
(***************************************************************************)
\* C24 (as claimed): with OneLine true the text made has no newline in it,
\* whatever the value is and whichever format is asked.
C24_OneLineNoNewline ==
    (Finished /\ WellFormed /\ OneLineAsked /\ result.kind = "dict") =>
        \A i \in 1..Len(Made.s) : Made.s[i] # "\n"


(***************************************************************************)
(* openapi.py: apply_rules. A specification is a dict; "paths" maps a path *)
(* to its path item, a path item maps an HTTP method to its operation and  *)
(* may hold other keys. A rule is its filter expression: its node type is  *)
(* path/method and its action delete, the only ones a Rule can be made     *)
(* with. The texts of keys, paths and expressions are of one piece.        *)
(***************************************************************************)
Key(k) == PyStr(<<k>>)

HttpMethods == {Key(m) : m \in {"get", "post", "put", "delete", "patch", "head", "options", "trace"}}

\* Rule("path/method : delete : <filter_expression>")
Rule(filter_expression) ==
    [node_type |-> "path/method", action |-> "delete", filter_expression |-> filter_expression]

\* SafeNavigationDict(data).<key>: the value wrapped, None for what is not there
SafeGetattr(data, key) == IF data.kind = "dict" /\ In(Key(key), data) THEN Get(data, Key(key)) ELSE PyNone

\* SafeNavigationDict.__bool__
SafeBool(data) == data # PyNone /\ data # PyList(<<>>)

\* Rule.evaluate: the filter expression evaluated with resource, path and
\* method; an expression that raises gives False
evaluate(rule, resource, path, method) ==
    IF rule.filter_expression = "True" THEN TRUE
    ELSE IF rule.filter_expression = "False" THEN FALSE
    ELSE IF rule.filter_expression = "method == 'get'" THEN method = Key("get")
    ELSE IF rule.filter_expression = "path == '/a'" THEN path = Key("/a")
    ELSE IF rule.filter_expression = "resource.deprecated" THEN SafeBool(SafeGetattr(resource, "deprecated"))
    ELSE FALSE

\* the dict with the entries at the places in kept, in their order
Restrict(d, kept) ==
    LET nth(k) == CHOOSE i \in kept : Cardinality({j \in kept : j < i}) = k - 1
    IN PyDict([k \in 1..Cardinality(kept) |-> d.keys[nth(k)]],
              [k \in 1..Cardinality(kept) |-> d.items[nth(k)]])

\* the path item after "for method in list(path_item.keys())"
delete_operations(rule, path, path_item) ==
    Restrict(path_item,
             {i \in 1..Len(path_item.keys) :
                 ~(path_item.keys[i] \in HttpMethods
                   /\ evaluate(rule, path_item.items[i], path, path_item.keys[i])
                   /\ rule.action = "delete")})

\* paths after "for path, path_item in list(paths.items())": a path item that
\* is no dict is skipped; the operations the rule matches are deleted; a path
\* item that then has no HTTP method key is deleted
delete_paths(rule, paths) ==
    LET item(i) == IF paths.items[i].kind # "dict" THEN paths.items[i]
                   ELSE delete_operations(rule, paths.keys[i], paths.items[i])
    IN Restrict(PyDict(paths.keys, [i \in 1..Len(paths.keys) |-> item(i)]),
                {i \in 1..Len(paths.keys) :
                    \/ paths.items[i].kind # "dict"
                    \/ \E j \in 1..Len(item(i).keys) : item(i).keys[j] \in HttpMethods})

\* one turn of "for rule in rules"
apply_rule(spec, rule) ==
    IF rule.node_type = "path/method" /\ In(Key("paths"), spec)
    THEN DictSet(spec, Key("paths"), delete_paths(rule, Get(spec, Key("paths"))))
    ELSE spec

RECURSIVE apply_rules(_, _)
\* apply_rules: what it returns
apply_rules(spec, rules) ==
    IF rules = <<>> THEN spec ELSE apply_rules(apply_rule(spec, Head(rules)), Tail(rules))

\* apply_rules: the caller's spec after the call (the rules work on a deep copy)
apply_rules_spec(spec, rules) == spec

Operations == { PyDict(<<>>, <<>>), PyDict(<<Key("deprecated")>>, <<PyBool(TrueText)>>) }

\* path items with one operation, with two, with an operation and another
\* key, with no HTTP method key, with no key, and one that is no dict
PathItems ==
    { PyDict(<<Key("get")>>, <<o>>) : o \in Operations }
    \cup { PyDict(<<Key("get"), Key("post")>>, <<o, PyDict(<<>>, <<>>)>>) : o \in Operations }
    \cup { PyDict(<<Key("parameters"), Key("post")>>, <<PyList(<<>>), o>>) : o \in Operations }
    \cup { PyDict(<<Key("parameters")>>, <<PyList(<<>>)>>),
           PyDict(<<>>, <<>>),
           Key("ref") }

OpenApiSpecs ==
    { PyDict(<<Key("openapi")>>, <<Key("3.0.0")>>) }
    \cup { PyDict(<<Key("openapi"), Key("paths")>>, <<Key("3.0.0"), PyDict(<<Key("/a")>>, <<a>>)>>) : a \in PathItems }
    \cup { PyDict(<<Key("paths"), Key("info")>>, <<PyDict(<<Key("/b"), Key("/a")>>, <<b, a>>), PyDict(<<>>, <<>>)>>) :
              a \in PathItems, b \in {PyDict(<<Key("get")>>, <<PyDict(<<>>, <<>>)>>), PyDict(<<Key("x-note")>>, <<Key("n")>>)} }

MaxRules == 2

Filters == {"True", "False", "method == 'get'", "path == '/a'", "resource.deprecated", "resource["}

RuleLists == UNION { [1..n -> {Rule(f) : f \in Filters}] : n \in 0..MaxRules }

\* tree is the spec as the caller built it, call the arguments of the call
InitRules ==
    /\ doc = NoNode
    /\ pc = "idle"
    /\ tree \in OpenApiSpecs
    /\ dumped = NoNode
    /\ reloaded = Unset
    /\ json = NoCall
    /\ cwd = <<>>
    /\ \E rules \in RuleLists : call = [spec |-> tree, rules |-> rules]
    /\ stack = <<>>
    /\ result = Unset
    /\ opened = <<>>
    /\ Imported

\* apply_rules(spec, rules) is called and returns
ApplyRules ==
    /\ result = Unset
    /\ result' = apply_rules(call.spec, call.rules)
    /\ call' = [call EXCEPT !.spec = apply_rules_spec(call.spec, call.rules)]
    /\ UNCHANGED <<cwd, stack, opened>>
    /\ UNCHANGED tagVars
    /\ UNCHANGED regVars

NextRules == ApplyRules

SpecRules == InitRules /\ [][NextRules]_vars


HasMethod(path_item) ==
    path_item.kind = "dict" /\ \E j \in 1..Len(path_item.keys) : path_item.keys[j] \in HttpMethods

\* some rule of the call matches the operation
Matched(path, method, operation) ==
    \E i \in 1..Len(call.rules) : evaluate(call.rules[i], operation, path, method)

\* the path item is in the result as the claim has it: the operations no rule
\* matched and the other keys, unchanged; gone only when it had operations
\* and a rule matched each of them
PathKept(path, path_item, out) ==
    IF path_item.kind # "dict"
    THEN In(path, out) /\ Get(out, path) = path_item
    ELSE LET ops == {j \in 1..Len(path_item.keys) : path_item.keys[j] \in HttpMethods}
             hit == {j \in ops : Matched(path, path_item.keys[j], path_item.items[j])}
         IN /\ ~In(path, out) => (ops # {} /\ hit = ops)
            /\ hit = {} => (In(path, out) /\ Get(out, path) = path_item)
            /\ In(path, out) =>
                  /\ Get(out, path).kind = "dict"
                  /\ \A j \in 1..Len(path_item.keys) :
                        IF j \in hit
                        THEN ~In(path_item.keys[j], Get(out, path))
                        ELSE /\ In(path_item.keys[j], Get(out, path))
                             /\ Get(Get(out, path), path_item.keys[j]) = path_item.items[j]
                  /\ \A k \in 1..Len(Get(out, path).keys) : In(Get(out, path).keys[k], path_item)

\* C25: apply_rules removes only what a rule matched: an operation is absent
\* from the result exactly when a rule matched it, a path is absent only if
\* each of its operations was deleted by a rule, every path from which no
\* operation was deleted (a path item with no HTTP method key too) and every
\* other key is in the result unchanged, and the caller's spec is as it was.
C25_OnlyMatchedRemoved ==
    Finished =>
        /\ call.spec = tree
        /\ result.kind = "dict"
        /\ Len(result.keys) = Len(tree.keys)
        /\ \A i \in 1..Len(tree.keys) :
              /\ In(tree.keys[i], result)
              /\ tree.keys[i] # Key("paths") => Get(result, tree.keys[i]) = tree.items[i]
        /\ In(Key("paths"), tree) =>
              LET paths == Get(tree, Key("paths"))
                  out == Get(result, Key("paths"))
              IN /\ out.kind = "dict"
                 /\ \A i \in 1..Len(paths.keys) : PathKept(paths.keys[i], paths.items[i], out)
                 /\ \A k \in 1..Len(out.keys) : In(out.keys[k], paths)

====
